---- MODULE Spec2Model ----
(***************************************************************************)
(* Model of the VaultCraft transfer engine.                                *)
(*                                                                         *)
(* The committed PostgreSQL state is the three tables wallets, txns and    *)
(* ledger.  Every HTTP request runs in an AsyncSession of its own          *)
(* (app/db/session.py get_db); a session keeps an identity map of the ORM  *)
(* objects it has loaded and an open database transaction whose writes     *)
(* reach the committed state only at session.commit().  No query of the    *)
(* engine uses SELECT ... FOR UPDATE, so reads take no lock and every      *)
(* statement sees the latest committed rows (READ COMMITTED).              *)
(* Money is counted in units of 500.00, the amount demo_transaction.py     *)
(* transfers.  The columns no statement of the engine reads or tests       *)
(* (currency, reference_id, description, transaction_type) are left out.   *)
(***************************************************************************)
EXTENDS Integers, FiniteSets, Sequences, TLC

\* ---------------------------------------------------------------- bounds
MaxCalls == 2      \* number of HTTP transfer requests in one behaviour
MaxAmount == 2     \* largest requested amount
SeedBalance == 2   \* balance of the funded wallets in the seeded database
MaxPage == 2       \* largest page number a listing asks for
MaxPageSize == 2   \* largest page size a listing asks for

Amounts == (-1)..MaxAmount

\* Two sessions serve the requests, so that up to two handlers interleave.
Sessions == {"s1", "s2"}

\* ------------------------------------------------------- seeded database
Orgs == {"o1", "o2"}
UserOrg == [u1 |-> "o1", u2 |-> "o1", u3 |-> "o2"]
SeedUsers == [u \in DOMAIN UserOrg |-> [email |-> u, org_id |-> UserOrg[u]]]
SeedOrganizations == [o \in Orgs |-> [name |-> o]]
Users == DOMAIN UserOrg
Actors == {"u1"}
WalletIds == {"w1", "w2", "w3"}
UnknownWalletId == "w0"    \* a well-formed id that no wallet row has
Endpoints == {"wallets", "transactions"}

ACTIVE == "ACTIVE"
LOCKED == "LOCKED"
CLOSED == "CLOSED"
WalletStatus == {ACTIVE, LOCKED, CLOSED}

PENDING == "PENDING"
COMPLETED == "COMPLETED"
FAILED == "FAILED"
CANCELLED == "CANCELLED"
TransactionStatus == {PENDING, COMPLETED, FAILED, CANCELLED}

DEBIT == "DEBIT"
CREDIT == "CREDIT"

Wallet(u, o, t, b) ==
    [user_id |-> u, org_id |-> o, type |-> t, status |-> ACTIVE, balance |-> b]

SeedWallets ==
    [w \in WalletIds |->
        CASE w = "w1" -> Wallet("u1", "o1", "PRIMARY", SeedBalance)
          [] w = "w2" -> Wallet("u2", "o1", "BONUS", 0)
          [] OTHER    -> Wallet("u3", "o2", "PRIMARY", SeedBalance)]

\* ------------------------------------------------------------------ state
VARIABLES
    wallets,   \* committed table wallets: wallet id -> row
    txns,      \* committed table transactions: transaction id -> row
    ledger,    \* committed table ledger_entries: set of rows
    now,       \* database clock
    served,    \* number of requests received so far
    pc,        \* position of each session in the handler it runs
    req,       \* the request a session serves: body and authenticated actor
    loaded,    \* identity map of the session: wallet id -> loaded object
    row,       \* transaction row flushed inside the open database transaction
    err,       \* detail of the error the session's last request was answered with
    users,          \* committed table users: user id -> row
    organizations,  \* committed table organizations: organization id -> row
    resp       \* body of the answer to the session's last successful request

db == <<wallets, txns, ledger>>
aux == <<users, organizations, resp>>
vars == <<wallets, txns, ledger, now, served, pc, req, loaded, row, err,
          users, organizations, resp>>

NoReq == [id |-> 0, endpoint |-> "none", user |-> "none", org_id |-> "none",
          sender_wallet_id |-> "none", receiver_wallet_id |-> "none",
          amount |-> 0]
Empty == <<>>

Init ==
    /\ wallets = SeedWallets
    /\ txns = Empty
    /\ ledger = {}
    /\ now = 1
    /\ served = 0
    /\ pc = [c \in Sessions |-> "idle"]
    /\ req = [c \in Sessions |-> NoReq]
    /\ loaded = [c \in Sessions |-> Empty]
    /\ row = [c \in Sessions |-> Empty]
    /\ err = [c \in Sessions |-> "none"]
    /\ users = SeedUsers
    /\ organizations = SeedOrganizations
    /\ resp = [c \in Sessions |-> Empty]


\* ------------------------------------------------------ request schemas
\* One run of the field validator validate_different_wallets: v is the
\* field's value, values the fields pydantic has validated before it.
validate_different_wallets(v, values) ==
    ~("sender_wallet_id" \in DOMAIN values /\ v = values["sender_wallet_id"])

\* The validator validate_amount.
validate_amount(a) == ~(a <= 0)

\* The fields a 422 answer names, given which of the two failed.
FieldErrors(walletsBad, amountBad) ==
    IF walletsBad /\ amountBad THEN "receiver_wallet_id, amount"
    ELSE IF walletsBad THEN "receiver_wallet_id"
    ELSE IF amountBad THEN "amount"
    ELSE "none"

\* WalletTransferRequest: the fields are validated in declaration order,
\* each validator seeing the fields validated before it.
WalletTransferRequestErrors(s, r, a) ==
    FieldErrors(~validate_different_wallets(s, Empty)
                   \/ ~validate_different_wallets(r, [sender_wallet_id |-> s]),
                ~(a > 0) \/ ~validate_amount(a))

\* Mutant: amount is declared Field(..., ge=0).
TransactionCreateErrorsGe(s, r, a) == FieldErrors(FALSE, ~(a >= 0))

\* TransactionCreate: amount has Field(..., gt=0); there is no validator.
TransactionCreateErrors(s, r, a) == FieldErrors(FALSE, ~(a > 0))

SchemaErrors(ep, s, r, a) ==
    IF ep = "wallets" THEN WalletTransferRequestErrors(s, r, a)
                      ELSE TransactionCreateErrors(s, r, a)

\* ------------------------------------------------------------- sessions
\* Mutant: the query has no "Wallet.org_id == org_id" condition.
get_wallet_by_idAnyOrg(ld, w, o) ==
    IF w \in DOMAIN ld THEN ld
    ELSE IF w \in DOMAIN wallets
         THEN ld @@ (w :> wallets[w])
         ELSE ld

\* WalletService.get_wallet_by_id through a session whose identity map is
\* ld: an object the session already holds keeps its loaded attributes,
\* otherwise the committed row is loaded if it is in the organization.
get_wallet_by_id(ld, w, o) ==
    IF w \in DOMAIN ld THEN ld
    ELSE IF w \in DOMAIN wallets /\ wallets[w].org_id = o
         THEN ld @@ (w :> wallets[w])
         ELSE ld

Found(c, w) == w \in DOMAIN loaded[c]

Sender(c) == req[c].sender_wallet_id
Receiver(c) == req[c].receiver_wallet_id

\* Positions in which a session runs no handler.
Free == {"idle", "done", "failed", "rejected"}

\* The answer of a request that ends without a commit: the session is
\* rolled back and closed, so its flushed row and its objects are gone.
Fail(c, e) ==
    /\ pc' = [pc EXCEPT ![c] = "failed"]
    /\ err' = [err EXCEPT ![c] = e]
    /\ req' = [req EXCEPT ![c] = NoReq]
    /\ row' = [row EXCEPT ![c] = Empty]
    /\ loaded' = [loaded EXCEPT ![c] = Empty]
    /\ UNCHANGED <<wallets, txns, ledger, now, served, aux>>

\* --------------------------------------------------------- entry points
\* A request arrives at POST /wallets/transfer or POST /transactions/transfer
\* and FastAPI validates its body against the endpoint's schema; a body
\* that fails is answered 422 with the fields at fault and the handler
\* never runs.  The request is served by the first session that is free.
Submit(c, ep, u, s, r, a) ==
    /\ pc[c] \in Free
    /\ c = "s2" => pc["s1"] \notin Free
    /\ served < MaxCalls
    /\ served' = served + 1
    /\ IF SchemaErrors(ep, s, r, a) = "none"
       THEN /\ pc' = [pc EXCEPT ![c] = IF ep = "wallets" THEN "owner"
                                                          ELSE "engine"]
            /\ req' = [req EXCEPT ![c] =
                         [id |-> served + 1, endpoint |-> ep,
                          user |-> u, org_id |-> UserOrg[u],
                          sender_wallet_id |-> s, receiver_wallet_id |-> r,
                          amount |-> a]]
            /\ err' = [err EXCEPT ![c] = "none"]
       ELSE /\ pc' = [pc EXCEPT ![c] = "rejected"]
            /\ req' = [req EXCEPT ![c] = NoReq]
            /\ err' = [err EXCEPT ![c] = SchemaErrors(ep, s, r, a)]
    /\ resp' = [resp EXCEPT ![c] = Empty]
    /\ UNCHANGED <<wallets, txns, ledger, now, loaded, row, users, organizations>>

\* transfer_funds: the sender wallet must belong to the current user.
OwnerCheck(c) ==
    /\ pc[c] = "owner"
    /\ LET ld == get_wallet_by_id(loaded[c], Sender(c), req[c].org_id) IN
       IF Sender(c) \notin DOMAIN ld \/ ld[Sender(c)].user_id # req[c].user
       THEN Fail(c, "Access denied to sender wallet")
       ELSE /\ loaded' = [loaded EXCEPT ![c] = ld]
            /\ pc' = [pc EXCEPT ![c] = "engine"]
            /\ UNCHANGED <<wallets, txns, ledger, now, served, req, row, err, aux>>

\* ------------------------------------------------------ transfer engine
GetSender(c) ==
    /\ pc[c] = "engine"
    /\ loaded' = [loaded EXCEPT ![c] =
                    get_wallet_by_id(@, Sender(c), req[c].org_id)]
    /\ pc' = [pc EXCEPT ![c] = "gotS"]
    /\ UNCHANGED <<wallets, txns, ledger, now, served, req, row, err, aux>>

\* Mutant: the receiver is selected by its id alone.
GetReceiverAnyOrg(c) ==
    /\ pc[c] = "gotS"
    /\ loaded' = [loaded EXCEPT ![c] =
                    IF Receiver(c) \in DOMAIN wallets \ DOMAIN @
                    THEN @ @@ (Receiver(c) :> wallets[Receiver(c)]) ELSE @]
    /\ pc' = [pc EXCEPT ![c] = "gotR"]
    /\ UNCHANGED <<wallets, txns, ledger, now, served, req, row, err, aux>>

GetReceiver(c) ==
    /\ pc[c] = "gotS"
    /\ loaded' = [loaded EXCEPT ![c] =
                    get_wallet_by_id(@, Receiver(c), req[c].org_id)]
    /\ pc' = [pc EXCEPT ![c] = "gotR"]
    /\ UNCHANGED <<wallets, txns, ledger, now, served, req, row, err, aux>>

NotFound == "One or both wallets not found"
NotActive == "One or both wallets are not active"
Insufficient == "Insufficient balance in sender wallet"

\* Mutant: the balance check is left out.
PreconditionErrorNoBalance(c) ==
    IF ~Found(c, Sender(c)) \/ ~Found(c, Receiver(c)) THEN NotFound
    ELSE IF loaded[c][Sender(c)].status # ACTIVE
            \/ loaded[c][Receiver(c)].status # ACTIVE THEN NotActive
    ELSE "ok"

\* Mutant: the balance check looks at the receiver's balance.
PreconditionErrorReceiverBalance(c) ==
    IF ~Found(c, Sender(c)) \/ ~Found(c, Receiver(c)) THEN NotFound
    ELSE IF loaded[c][Sender(c)].status # ACTIVE
            \/ loaded[c][Receiver(c)].status # ACTIVE THEN NotActive
    ELSE IF loaded[c][Receiver(c)].balance < req[c].amount THEN Insufficient
    ELSE "ok"

\* Mutant: only the sender's status is checked.
PreconditionErrorSenderStatus(c) ==
    IF ~Found(c, Sender(c)) \/ ~Found(c, Receiver(c)) THEN NotFound
    ELSE IF loaded[c][Sender(c)].status # ACTIVE THEN NotActive
    ELSE IF loaded[c][Sender(c)].balance < req[c].amount THEN Insufficient
    ELSE "ok"

\* The checks of create_internal_transfer on the two loaded objects.
PreconditionError(c) ==
    IF ~Found(c, Sender(c)) \/ ~Found(c, Receiver(c)) THEN NotFound
    ELSE IF loaded[c][Sender(c)].status # ACTIVE
            \/ loaded[c][Receiver(c)].status # ACTIVE THEN NotActive
    ELSE IF loaded[c][Sender(c)].balance < req[c].amount THEN Insufficient
    ELSE "ok"

\* The Transaction object built from the request.
PendingRow(c) ==
    [org_id |-> req[c].org_id,
     sender_wallet_id |-> Sender(c),
     receiver_wallet_id |-> Receiver(c),
     amount |-> req[c].amount,
     status |-> PENDING,
     created_at |-> now,
     completed_at |-> 0]

\* Mutant: the flush of the PENDING row is a commit.
FlushCommitting(c) ==
    /\ row' = [row EXCEPT ![c] = (req[c].id :> PendingRow(c))]
    /\ txns' = (req[c].id :> PendingRow(c)) @@ txns
    /\ pc' = [pc EXCEPT ![c] = "flushed"]
    /\ UNCHANGED <<wallets, ledger, now, served, req, loaded, err, aux>>

\* db.add(transaction); db.flush(): the INSERT runs inside the session's
\* open database transaction and no other session sees it.
Flush(c) ==
    /\ row' = [row EXCEPT ![c] = (req[c].id :> PendingRow(c))]
    /\ pc' = [pc EXCEPT ![c] = "flushed"]
    /\ UNCHANGED <<wallets, txns, ledger, now, served, req, loaded, err, aux>>

CheckAndFlush(c) ==
    /\ pc[c] = "gotR"
    /\ IF PreconditionError(c) # "ok"
       THEN Fail(c, PreconditionError(c))
       ELSE Flush(c)

\* The session's wallet objects after "sender_wallet.balance -= amount;
\* receiver_wallet.balance += amount".  With sender = receiver both names
\* are the same object of the identity map.
NewObjects(c) ==
    LET debited == [loaded[c] EXCEPT ![Sender(c)].balance = @ - req[c].amount]
    IN  [debited EXCEPT ![Receiver(c)].balance = @ + req[c].amount]

\* The unit of work writes an attribute only if it differs from the value
\* the object was loaded with: UPDATE wallets SET balance = <new value>.
Dirty(c) ==
    {w \in {Sender(c), Receiver(c)} :
        NewObjects(c)[w].balance # loaded[c][w].balance}

\* Mutant: the credit entry carries the debit's sign.
LedgerPairSameSign(c) ==
    {[id |-> <<req[c].id, DEBIT>>, wallet_id |-> Sender(c),
      transaction_id |-> req[c].id, amount |-> -req[c].amount, type |-> DEBIT],
     [id |-> <<req[c].id, CREDIT>>, wallet_id |-> Receiver(c),
      transaction_id |-> req[c].id, amount |-> -req[c].amount, type |-> CREDIT]}

\* debit_entry and credit_entry.
LedgerPair(c) ==
    {[id |-> <<req[c].id, DEBIT>>, wallet_id |-> Sender(c),
      transaction_id |-> req[c].id, amount |-> -req[c].amount, type |-> DEBIT],
     [id |-> <<req[c].id, CREDIT>>, wallet_id |-> Receiver(c),
      transaction_id |-> req[c].id, amount |-> req[c].amount, type |-> CREDIT]}

\* Mutant: completed_at is stamped and the status is left as it was.
CompletedRowPending(c) ==
    [row[c][req[c].id] EXCEPT !.completed_at = now]

\* transaction.status = COMPLETED; transaction.completed_at = utcnow().
CompletedRow(c) ==
    [row[c][req[c].id] EXCEPT !.status = COMPLETED, !.completed_at = now]

\* Mutant: the handler returns the transaction without awaiting the commit.
ReturnWithoutCommit(c) ==
    /\ pc[c] = "flushed"
    /\ pc' = [pc EXCEPT ![c] = "done"]
    /\ req' = [req EXCEPT ![c] = NoReq]
    /\ row' = [row EXCEPT ![c] = Empty]
    /\ loaded' = [loaded EXCEPT ![c] = Empty]
    /\ UNCHANGED <<wallets, txns, ledger, now, served, err, aux>>

\* Mutant: the balances are committed by WalletService.update_wallet_balance,
\* which commits by itself, and the ledger entries are never written.
CommitBalancesOnly(c) ==
    /\ pc[c] = "flushed"
    /\ wallets' = [w \in DOMAIN wallets |->
                     IF w \in Dirty(c)
                     THEN [wallets[w] EXCEPT !.balance = NewObjects(c)[w].balance]
                     ELSE wallets[w]]
    /\ txns' = (req[c].id :> CompletedRow(c)) @@ txns
    /\ ledger' = ledger
    /\ now' = now + 1
    /\ pc' = [pc EXCEPT ![c] = "done"]
    /\ req' = [req EXCEPT ![c] = NoReq]
    /\ row' = [row EXCEPT ![c] = Empty]
    /\ loaded' = [loaded EXCEPT ![c] = Empty]
    /\ UNCHANGED <<served, err, aux>>

\* Mutant: the ledger keeps one row per wallet and type, which the commit
\* replaces.
CommitReplacingEntries(c) ==
    /\ pc[c] = "flushed"
    /\ wallets' = [w \in DOMAIN wallets |->
                     IF w \in Dirty(c)
                     THEN [wallets[w] EXCEPT !.balance = NewObjects(c)[w].balance]
                     ELSE wallets[w]]
    /\ txns' = (req[c].id :> CompletedRow(c)) @@ txns
    /\ ledger' = {e \in ledger :
                     \A n \in LedgerPair(c) :
                        e.wallet_id # n.wallet_id \/ e.type # n.type}
                  \cup LedgerPair(c)
    /\ now' = now + 1
    /\ pc' = [pc EXCEPT ![c] = "done"]
    /\ req' = [req EXCEPT ![c] = NoReq]
    /\ row' = [row EXCEPT ![c] = Empty]
    /\ loaded' = [loaded EXCEPT ![c] = Empty]
    /\ UNCHANGED <<served, err, aux>>

\* db.commit(): the pending INSERTs and UPDATEs are flushed and the database
\* transaction commits; the handler answers and its session is closed.
Commit(c) ==
    /\ pc[c] = "flushed"
    /\ wallets' = [w \in DOMAIN wallets |->
                     IF w \in Dirty(c)
                     THEN [wallets[w] EXCEPT !.balance = NewObjects(c)[w].balance]
                     ELSE wallets[w]]
    /\ txns' = (req[c].id :> CompletedRow(c)) @@ txns
    /\ ledger' = ledger \cup LedgerPair(c)
    /\ now' = now + 1
    /\ pc' = [pc EXCEPT ![c] = "done"]
    /\ req' = [req EXCEPT ![c] = NoReq]
    /\ row' = [row EXCEPT ![c] = Empty]
    /\ loaded' = [loaded EXCEPT ![c] = Empty]
    /\ UNCHANGED <<served, err, aux>>

InternalError == "Transaction failed. Please try again."

\* An exception inside the try block (a failing statement, a lost
\* connection, a failing commit): "except Exception: db.rollback()".
Fault(c) ==
    /\ pc[c] \in {"engine", "gotS", "gotR", "flushed"}
    /\ Fail(c, InternalError)

Next ==
    \/ \E c \in Sessions, ep \in Endpoints, u \in Actors,
          s \in WalletIds, r \in WalletIds, a \in Amounts :
            Submit(c, ep, u, s, r, a)
    \/ \E c \in Sessions : OwnerCheck(c)
    \/ \E c \in Sessions : GetSender(c)
    \/ \E c \in Sessions : GetReceiver(c)
    \/ \E c \in Sessions : CheckAndFlush(c)
    \/ \E c \in Sessions : Commit(c)
    \/ \E c \in Sessions : Fault(c)

Spec == Init /\ [][Next]_vars

\* -------------------------------------------------- a request of any kind
\* A request other than a transfer reaches the first free session; f holds
\* the fields of its kind.
Request(kind, f) ==
    LET base == [NoReq EXCEPT !.id = served + 1, !.endpoint = kind] IN
    [k \in DOMAIN f \cup DOMAIN base |-> IF k \in DOMAIN f THEN f[k] ELSE base[k]]

Accept(c, kind, f) ==
    /\ pc[c] \in Free
    /\ c = "s2" => pc["s1"] \notin Free
    /\ served < MaxCalls
    /\ served' = served + 1
    /\ pc' = [pc EXCEPT ![c] = kind]
    /\ req' = [req EXCEPT ![c] = Request(kind, f)]
    /\ err' = [err EXCEPT ![c] = "none"]
    /\ resp' = [resp EXCEPT ![c] = Empty]
    /\ UNCHANGED <<wallets, txns, ledger, now, loaded, row, users, organizations>>

\* The answer of a request that succeeds: the session is closed.
Answer(c, body) ==
    /\ pc' = [pc EXCEPT ![c] = "done"]
    /\ resp' = [resp EXCEPT ![c] = body]
    /\ req' = [req EXCEPT ![c] = NoReq]
    /\ row' = [row EXCEPT ![c] = Empty]
    /\ loaded' = [loaded EXCEPT ![c] = Empty]
    /\ UNCHANGED <<served, err>>

\* ------------------------------------------------- update_wallet_status
WalletNotFound == "Wallet not found"

\* A call update_wallet_status(wallet_id = w, org_id = o, status = st) made
\* for user u, o being the user's organization.
CallUpdateStatus(c, u, w, st) ==
    Accept(c, "update_wallet_status",
           [user |-> u, org_id |-> UserOrg[u], wallet_id |-> w, status |-> st])

\* wallet = await self.get_wallet_by_id(wallet_id, org_id); 404 if None.
StatusGetWallet(c) ==
    /\ pc[c] = "update_wallet_status"
    /\ LET ld == get_wallet_by_id(loaded[c], req[c].wallet_id, req[c].org_id) IN
       IF req[c].wallet_id \notin DOMAIN ld
       THEN Fail(c, WalletNotFound)
       ELSE /\ loaded' = [loaded EXCEPT ![c] = ld]
            /\ pc' = [pc EXCEPT ![c] = "statusGot"]
            /\ UNCHANGED <<wallets, txns, ledger, now, served, req, row, err, aux>>

\* wallet.status = status; commit: the unit of work writes the status
\* column, and only if the new value differs from the loaded one.
StatusCommit(c) ==
    /\ pc[c] = "statusGot"
    /\ LET w == req[c].wallet_id IN
       /\ wallets' = IF loaded[c][w].status # req[c].status
                      THEN [wallets EXCEPT ![w].status = req[c].status]
                      ELSE wallets
       /\ Answer(c, [loaded[c][w] EXCEPT !.status = req[c].status])
    /\ now' = now + 1
    /\ UNCHANGED <<txns, ledger, users, organizations>>

\* The steps of the transfer handlers.
EngineStep(c) ==
    \/ OwnerCheck(c)
    \/ GetSender(c)
    \/ GetReceiver(c)
    \/ CheckAndFlush(c)
    \/ Commit(c)
    \/ Fault(c)

\* Transfers whose body passes both schemas, next to status updates.
NextStatus ==
    \/ \E c \in Sessions, ep \in Endpoints, u \in Actors,
          s \in WalletIds, r \in WalletIds, a \in 1..MaxAmount :
            Submit(c, ep, u, s, r, a)
    \/ \E c \in Sessions : EngineStep(c)
    \/ \E c \in Sessions, u \in Actors, w \in WalletIds, st \in WalletStatus :
            CallUpdateStatus(c, u, w, st)
    \/ \E c \in Sessions : StatusGetWallet(c)
    \/ \E c \in Sessions : StatusCommit(c)

StatusSpec == Init /\ [][NextStatus]_vars

\* --------------------------------------------------- cancel_transaction
TransactionNotFound == "Transaction not found"
OnlyPending == "Only pending transactions can be cancelled"

\* A database that also holds a transaction row in status PENDING, the
\* default of the column and the only status cancel_transaction accepts;
\* create_internal_transfer itself commits COMPLETED rows only.
SeedTransactions ==
    0 :> [org_id |-> "o1", sender_wallet_id |-> "w1",
          receiver_wallet_id |-> "w2", amount |-> 1, status |-> PENDING,
          created_at |-> 0, completed_at |-> 0]

InitCancel ==
    /\ wallets = SeedWallets
    /\ txns = SeedTransactions
    /\ ledger = {}
    /\ now = 1
    /\ served = 0
    /\ pc = [c \in Sessions |-> "idle"]
    /\ req = [c \in Sessions |-> NoReq]
    /\ loaded = [c \in Sessions |-> Empty]
    /\ row = [c \in Sessions |-> Empty]
    /\ err = [c \in Sessions |-> "none"]
    /\ users = SeedUsers
    /\ organizations = SeedOrganizations
    /\ resp = [c \in Sessions |-> Empty]

\* Mutant: the query has no "Transaction.org_id == org_id" condition.
get_transaction_by_idAnyOrg(t, o) ==
    IF t \in DOMAIN txns THEN (t :> txns[t]) ELSE Empty

\* get_transaction_by_id: the committed row, if it is in the organization.
get_transaction_by_id(t, o) ==
    IF t \in DOMAIN txns /\ txns[t].org_id = o THEN (t :> txns[t]) ELSE Empty

\* POST /transactions/{transaction_id}/cancel by user u.
CallCancel(c, u, t) ==
    Accept(c, "cancel_transaction",
           [user |-> u, org_id |-> UserOrg[u], transaction_id |-> t])

\* Mutant: the status test is "transaction.status == COMPLETED".
CancelRefusalCompletedOnly(found, t) ==
    IF found = Empty THEN TransactionNotFound
    ELSE IF found[t].status = COMPLETED THEN OnlyPending
    ELSE "ok"

\* Mutant: there is no status test.
CancelRefusalNoStatus(found, t) ==
    IF found = Empty THEN TransactionNotFound ELSE "ok"

\* The two checks of cancel_transaction on the row it read.
CancelRefusal(found, t) ==
    IF found = Empty THEN TransactionNotFound
    ELSE IF found[t].status # PENDING THEN OnlyPending
    ELSE "ok"

\* transaction = await self.get_transaction_by_id(...) and the two checks.
CancelGet(c) ==
    /\ pc[c] = "cancel_transaction"
    /\ LET t == req[c].transaction_id
           found == get_transaction_by_id(t, req[c].org_id) IN
       IF CancelRefusal(found, t) # "ok"
       THEN Fail(c, CancelRefusal(found, t))
       ELSE /\ row' = [row EXCEPT ![c] = found]
            /\ pc' = [pc EXCEPT ![c] = "cancelGot"]
            /\ UNCHANGED <<wallets, txns, ledger, now, served, req, loaded, err, aux>>

\* Mutant: the cancellation gives the amount back to the sender wallet.
CancelCommitRefunding(c) ==
    /\ pc[c] = "cancelGot"
    /\ LET t == req[c].transaction_id IN
       /\ txns' = [txns EXCEPT ![t].status = CANCELLED]
       /\ wallets' = [wallets EXCEPT ![row[c][t].sender_wallet_id].balance =
                                        @ + row[c][t].amount]
       /\ Answer(c, [row[c][t] EXCEPT !.status = CANCELLED])
    /\ now' = now + 1
    /\ UNCHANGED <<ledger, users, organizations>>

\* Mutant: the cancellation stamps completed_at.
CancelCommitStamping(c) ==
    /\ pc[c] = "cancelGot"
    /\ LET t == req[c].transaction_id IN
       /\ txns' = [txns EXCEPT ![t].status = CANCELLED, ![t].completed_at = now]
       /\ Answer(c, [row[c][t] EXCEPT !.status = CANCELLED])
    /\ now' = now + 1
    /\ UNCHANGED <<wallets, ledger, users, organizations>>

\* transaction.status = CANCELLED; commit: UPDATE transactions SET status.
CancelCommit(c) ==
    /\ pc[c] = "cancelGot"
    /\ LET t == req[c].transaction_id IN
       /\ txns' = [txns EXCEPT ![t].status = CANCELLED]
       /\ Answer(c, [row[c][t] EXCEPT !.status = CANCELLED])
    /\ now' = now + 1
    /\ UNCHANGED <<wallets, ledger, users, organizations>>

\* Ids a cancel request may name: the seeded row and the transfers' rows.
TransactionIds == 0..MaxCalls

NextCancel ==
    \/ \E c \in Sessions, ep \in Endpoints, u \in Actors,
          s \in WalletIds, r \in WalletIds, a \in 1..MaxAmount :
            Submit(c, ep, u, s, r, a)
    \/ \E c \in Sessions : EngineStep(c)
    \/ \E c \in Sessions, u \in Actors, t \in TransactionIds : CallCancel(c, u, t)
    \/ \E c \in Sessions : CancelGet(c)
    \/ \E c \in Sessions : CancelCommit(c)

CancelSpec == InitCancel /\ [][NextCancel]_vars

\* -------------------------------------------------------- create_wallet
WalletTypes == {"PRIMARY", "BONUS", "SYSTEM"}
AlreadyPrimary == "User already has an active primary wallet"

\* id = uuid.uuid4(): an id no row has yet.
NewWalletId(k) == "n" \o ToString(k)

\* The rows the existence query of create_wallet selects.
ActivePrimaryWallets(u) ==
    {w \in DOMAIN wallets :
        /\ wallets[w].user_id = u
        /\ wallets[w].type = "PRIMARY"
        /\ wallets[w].status = ACTIVE}

\* POST /wallets/ by user u with WalletCreate(type = t).
CallCreateWallet(c, u, t) ==
    Accept(c, "create_wallet", [user |-> u, org_id |-> UserOrg[u], type |-> t])

\* The check for an existing ACTIVE PRIMARY wallet, made for type PRIMARY.
CreateCheck(c) ==
    /\ pc[c] = "create_wallet"
    /\ IF req[c].type = "PRIMARY" /\ ActivePrimaryWallets(req[c].user) # {}
       THEN Fail(c, AlreadyPrimary)
       ELSE /\ pc' = [pc EXCEPT ![c] = "createChecked"]
            /\ UNCHANGED <<wallets, txns, ledger, now, served, req, loaded,
                           row, err, aux>>

\* Mutant: a new wallet starts with the balance of a funded one.
CreateCommitFunded(c) ==
    /\ pc[c] = "createChecked"
    /\ LET w == NewWalletId(req[c].id)
           new == Wallet(req[c].user, req[c].org_id, req[c].type, SeedBalance) IN
       /\ wallets' = (w :> new) @@ wallets
       /\ Answer(c, (w :> new))
    /\ now' = now + 1
    /\ UNCHANGED <<txns, ledger, users, organizations>>

\* self.db.add(wallet); commit: the INSERT; the table has no constraint
\* other than its primary key.
CreateCommit(c) ==
    /\ pc[c] = "createChecked"
    /\ LET w == NewWalletId(req[c].id)
           new == Wallet(req[c].user, req[c].org_id, req[c].type, 0) IN
       /\ wallets' = (w :> new) @@ wallets
       /\ Answer(c, (w :> new))
    /\ now' = now + 1
    /\ UNCHANGED <<txns, ledger, users, organizations>>

NextWallet ==
    \/ \E c \in Sessions, u \in Users, t \in WalletTypes : CallCreateWallet(c, u, t)
    \/ \E c \in Sessions : CreateCheck(c)
    \/ \E c \in Sessions : CreateCommit(c)

WalletSpec == Init /\ [][NextWallet]_vars

\* ------------------------------------------- row locks of the commit
\* db.commit() first flushes the unit of work: one UPDATE per dirty wallet,
\* each taking the row's lock until the database transaction ends, and an
\* UPDATE of a row another open transaction has updated waits for it.

\* Ascending order of the wallet ids, w4 being a second wallet of
\* organization o2.
WalletOrder == <<"w1", "w2", "w3", "w4">>

InDirty(c, w) == w \in Dirty(c)

\* Mutant: the UPDATEs are emitted in the order of the two assignments,
\* sender first.
UpdateOrderAsAssigned(c) ==
    SelectSeq(<<Sender(c), Receiver(c)>>, LAMBDA w : InDirty(c, w))

\* Mutant: the UPDATE has no WHERE clause and locks every row of the table.
UpdateOrderWholeTable(c) == WalletOrder

\* The unit of work emits the UPDATEs of one table in primary-key order.
UpdateOrder(c) == SelectSeq(WalletOrder, LAMBDA w : InDirty(c, w))

\* Number of UPDATEs the session has executed in its commit.
Updated(c) ==
    CASE pc[c] = "held1" -> 1
      [] pc[c] = "held2" -> 2
      [] OTHER -> 0

\* The wallet rows the session's open transaction has locked.
Held(c) ==
    IF pc[c] \in {"held1", "held2"}
    THEN {UpdateOrder(c)[i] : i \in 1..Updated(c)}
    ELSE {}

\* The row the session's next UPDATE needs, if it has one to run.
Wanted(c) ==
    IF pc[c] \in {"flushed", "held1"} /\ Updated(c) < Len(UpdateOrder(c))
    THEN {UpdateOrder(c)[Updated(c) + 1]}
    ELSE {}

\* One UPDATE wallets SET balance = ... WHERE id = ...
UpdateRow(c) ==
    /\ Wanted(c) # {}
    /\ \A d \in Sessions \ {c} : Wanted(c) \cap Held(d) = {}
    /\ pc' = [pc EXCEPT ![c] = IF Updated(c) = 0 THEN "held1" ELSE "held2"]
    /\ UNCHANGED <<wallets, txns, ledger, now, served, req, loaded, row, err, aux>>

\* COMMIT once every UPDATE has run: the writes become visible and the
\* locks are released.
CommitLocked(c) ==
    /\ pc[c] \in {"flushed", "held1", "held2"}
    /\ Updated(c) = Len(UpdateOrder(c))
    /\ wallets' = [w \in DOMAIN wallets |->
                     IF w \in Dirty(c)
                     THEN [wallets[w] EXCEPT !.balance = NewObjects(c)[w].balance]
                     ELSE wallets[w]]
    /\ txns' = (req[c].id :> CompletedRow(c)) @@ txns
    /\ ledger' = ledger \cup LedgerPair(c)
    /\ now' = now + 1
    /\ pc' = [pc EXCEPT ![c] = "done"]
    /\ req' = [req EXCEPT ![c] = NoReq]
    /\ row' = [row EXCEPT ![c] = Empty]
    /\ loaded' = [loaded EXCEPT ![c] = Empty]
    /\ UNCHANGED <<served, err, aux>>

\* An exception while the commit is under way: rollback releases the locks.
FaultLocked(c) ==
    /\ pc[c] \in {"held1", "held2"}
    /\ Fail(c, InternalError)

\* The steps a handler takes when it is scheduled.
Progress(c) ==
    \/ GetSender(c)
    \/ GetReceiver(c)
    \/ CheckAndFlush(c)
    \/ UpdateRow(c)
    \/ CommitLocked(c)

\* Both wallets of organization o1 are funded.
FundedWallets == [SeedWallets EXCEPT !["w2"].balance = SeedBalance]

InitLocks ==
    /\ wallets = FundedWallets
    /\ txns = Empty
    /\ ledger = {}
    /\ now = 1
    /\ served = 0
    /\ pc = [c \in Sessions |-> "idle"]
    /\ req = [c \in Sessions |-> NoReq]
    /\ loaded = [c \in Sessions |-> Empty]
    /\ row = [c \in Sessions |-> Empty]
    /\ err = [c \in Sessions |-> "none"]
    /\ users = SeedUsers
    /\ organizations = SeedOrganizations
    /\ resp = [c \in Sessions |-> Empty]

\* Transfers of one unit between the wallets of organization o1, whose rows
\* are the ones a commit can lock.
NextLocks ==
    \/ \E c \in Sessions, u \in Actors,
          s \in {"w1", "w2"}, r \in {"w1", "w2"} :
            Submit(c, "transactions", u, s, r, 1)
    \/ \E c \in Sessions : Progress(c)
    \/ \E c \in Sessions : Fault(c)
    \/ \E c \in Sessions : FaultLocked(c)

\* The event loop resumes every coroutine that can run, and PostgreSQL
\* wakes a waiting UPDATE when the lock it waits for is released.
LockSpec ==
    /\ InitLocks
    /\ [][NextLocks]_vars
    /\ \A c \in Sessions : WF_vars(Progress(c))

\* ------------------------------------------------------ get_transactions
\* The committed tables after three transfers of one unit: w1 -> w2, at the
\* same time w3 -> w3 in organization o2, and then w2 -> w1.
HistoryRow(o, s, r, created, completed) ==
    [org_id |-> o, sender_wallet_id |-> s, receiver_wallet_id |-> r,
     amount |-> 1, status |-> COMPLETED,
     created_at |-> created, completed_at |-> completed]

HistoryEntries(t, s, r) ==
    {[id |-> <<t, DEBIT>>, wallet_id |-> s, transaction_id |-> t,
      amount |-> -1, type |-> DEBIT],
     [id |-> <<t, CREDIT>>, wallet_id |-> r, transaction_id |-> t,
      amount |-> 1, type |-> CREDIT]}

SeedHistory ==
    (-1 :> HistoryRow("o1", "w1", "w2", 1, 1))
    @@ (-2 :> HistoryRow("o2", "w3", "w3", 1, 2))
    @@ (-3 :> HistoryRow("o1", "w2", "w1", 3, 3))

InitQuery ==
    /\ wallets = SeedWallets
    /\ txns = SeedHistory
    /\ ledger = HistoryEntries(-1, "w1", "w2") \cup HistoryEntries(-2, "w3", "w3")
                   \cup HistoryEntries(-3, "w2", "w1")
    /\ now = 4
    /\ served = 0
    /\ pc = [c \in Sessions |-> "idle"]
    /\ req = [c \in Sessions |-> NoReq]
    /\ loaded = [c \in Sessions |-> Empty]
    /\ row = [c \in Sessions |-> Empty]
    /\ err = [c \in Sessions |-> "none"]
    /\ users = SeedUsers
    /\ organizations = SeedOrganizations
    /\ resp = [c \in Sessions |-> Empty]

\* Mutant: the wallet filter tests the sender column only.
WhereSenderOnly(o, f) ==
    {t \in DOMAIN txns :
        /\ txns[t].org_id = o
        /\ f.status # "none" => txns[t].status = f.status
        /\ f.wallet_id # "none" => txns[t].sender_wallet_id = f.wallet_id}

\* The rows the WHERE clause built by get_transactions selects: the
\* organization, and the status and wallet filters that are set.
Where(o, f) ==
    {t \in DOMAIN txns :
        /\ txns[t].org_id = o
        /\ f.status # "none" => txns[t].status = f.status
        /\ f.wallet_id # "none" =>
              \/ txns[t].sender_wallet_id = f.wallet_id
              \/ txns[t].receiver_wallet_id = f.wallet_id}

\* The sequences without repetition over the set S.
Arrangements(S) ==
    {q \in [1..Cardinality(S) -> S] : \A i, j \in DOMAIN q : i # j => q[i] # q[j]}

\* Mutant: ORDER BY created_at, ascending.
OrderedByAscending(S) ==
    {q \in Arrangements(S) :
        \A i, j \in DOMAIN q :
            i < j => txns[q[i]].created_at <= txns[q[j]].created_at}

\* ORDER BY created_at DESC: any sequence of the rows that is descending
\* in created_at; rows with equal created_at come in an order the database
\* chooses.
OrderedBy(S) ==
    {q \in Arrangements(S) :
        \A i, j \in DOMAIN q :
            i < j => txns[q[i]].created_at >= txns[q[j]].created_at}

\* OFFSET (page - 1) * page_size LIMIT page_size.
OffsetLimit(q, page, size) ==
    [i \in 1..(IF Len(q) - (page - 1) * size < 0 THEN 0
               ELSE IF Len(q) - (page - 1) * size < size
                    THEN Len(q) - (page - 1) * size
                    ELSE size)
       |-> q[(page - 1) * size + i]]

\* GET /transactions/ by user u with the query parameters status,
\* wallet_id, page and page_size.
CallList(c, u, st, w, page, size) ==
    Accept(c, "get_transactions",
           [user |-> u, org_id |-> UserOrg[u], status |-> st, wallet_id |-> w,
            page |-> page, page_size |-> size])

\* The count query: select count(*) over the filtered rows.
ListCount(c) ==
    /\ pc[c] = "get_transactions"
    /\ resp' = [resp EXCEPT ![c] =
                  [total_count |-> Cardinality(Where(req[c].org_id, req[c]))]]
    /\ pc' = [pc EXCEPT ![c] = "counted"]
    /\ UNCHANGED <<wallets, txns, ledger, now, served, req, loaded, row, err,
                   users, organizations>>

\* The page query, a statement of its own, and the answer.
ListPage(c) ==
    /\ pc[c] = "counted"
    /\ \E q \in OrderedBy(Where(req[c].org_id, req[c])) :
          Answer(c, [transactions |-> OffsetLimit(q, req[c].page, req[c].page_size),
                     total_count |-> resp[c].total_count,
                     page |-> req[c].page, page_size |-> req[c].page_size])
    /\ UNCHANGED <<wallets, txns, ledger, now, users, organizations>>

\* Transfers of one unit inside organization o1 next to listings.
NextQuery ==
    \/ \E c \in Sessions, u \in Actors, s \in {"w1", "w2"}, r \in {"w1", "w2"} :
            Submit(c, "transactions", u, s, r, 1)
    \/ \E c \in Sessions : GetSender(c)
    \/ \E c \in Sessions : GetReceiver(c)
    \/ \E c \in Sessions : CheckAndFlush(c)
    \/ \E c \in Sessions : Commit(c)
    \/ \E c \in Sessions, u \in Actors, st \in {"none", COMPLETED},
          w \in WalletIds \cup {"none"}, page \in 1..MaxPage, size \in 1..MaxPageSize :
            CallList(c, u, st, w, page, size)
    \/ \E c \in Sessions : ListCount(c)
    \/ \E c \in Sessions : ListPage(c)

QuerySpec == InitQuery /\ [][NextQuery]_vars

\* ---------------------------------------------------------------- signup
UserExists == "User with this email already exists"
OrganizationExists == "Organization with this name already exists"
RegistrationFailed == "Registration failed. Please try again."

\* Emails and organization names a signup may carry: those of the seeded
\* rows and new ones.
Emails == {"u1", "e1", "e2"}
OrganizationNames == {"o1", "a1", "a2"}

NewUserId(k) == "nu" \o ToString(k)
NewOrganizationId(k) == "no" \o ToString(k)

\* Mutant: the query compares User.id with the email and selects nothing.
UserByEmailNone(e) == {}

\* select(User).where(User.email == email) on the committed table.
UserByEmail(e) == {u \in DOMAIN users : users[u].email = e}

\* select(Organization).where(Organization.name == name).
OrganizationByName(n) == {o \in DOMAIN organizations : organizations[o].name = n}

\* The organization rows that open database transactions of other sessions
\* have inserted under the name n and not yet committed.
PendingOrganizations(c, n) ==
    {d \in Sessions \ {c} :
        pc[d] = "orgFlushed" /\ \E o \in DOMAIN row[d] : row[d][o].name = n}

\* POST /auth/signup with UserCreate(email, organization_name).
CallSignup(c, e, n) ==
    Accept(c, "signup", [email |-> e, organization_name |-> n])

\* create_user: the check for a user with this email.
SignupCheckEmail(c) ==
    /\ pc[c] = "signup"
    /\ IF UserByEmail(req[c].email) # {}
       THEN Fail(c, UserExists)
       ELSE /\ pc' = [pc EXCEPT ![c] = "emailFree"]
            /\ UNCHANGED <<wallets, txns, ledger, now, served, req, loaded,
                           row, err, aux>>

\* create_organization: the check for an organization with this name.
SignupCheckOrganization(c) ==
    /\ pc[c] = "emailFree"
    /\ IF OrganizationByName(req[c].organization_name) # {}
       THEN Fail(c, OrganizationExists)
       ELSE /\ pc' = [pc EXCEPT ![c] = "nameFree"]
            /\ UNCHANGED <<wallets, txns, ledger, now, served, req, loaded,
                           row, err, aux>>

\* self.db.add(organization); flush: the INSERT inside the open database
\* transaction.  Organization.name is unique: the INSERT waits for an open
\* transaction that has inserted the same name, and fails if the name is
\* committed; signup turns the IntegrityError into a 500.
SignupFlushOrganization(c) ==
    /\ pc[c] = "nameFree"
    /\ PendingOrganizations(c, req[c].organization_name) = {}
    /\ IF OrganizationByName(req[c].organization_name) # {}
       THEN Fail(c, RegistrationFailed)
       ELSE /\ row' = [row EXCEPT ![c] =
                         (NewOrganizationId(req[c].id)
                            :> [name |-> req[c].organization_name])]
            /\ pc' = [pc EXCEPT ![c] = "orgFlushed"]
            /\ UNCHANGED <<wallets, txns, ledger, now, served, req, loaded,
                           err, aux>>

\* self.db.add(user); commit: the INSERT of the user and the COMMIT.
\* User.email is unique: the INSERT fails if the email is committed, and
\* the rollback takes the organization row with it.
SignupCommit(c) ==
    /\ pc[c] = "orgFlushed"
    /\ IF \E u \in DOMAIN users : users[u].email = req[c].email
       THEN Fail(c, RegistrationFailed)
       ELSE LET o == CHOOSE x \in DOMAIN row[c] : TRUE
                new == [email |-> req[c].email, org_id |-> o] IN
            /\ users' = (NewUserId(req[c].id) :> new) @@ users
            /\ organizations' = row[c] @@ organizations
            /\ Answer(c, [email |-> req[c].email, organization_id |-> o,
                          organization_name |-> req[c].organization_name])
            /\ now' = now + 1
            /\ UNCHANGED <<wallets, txns, ledger>>

NextAuth ==
    \/ \E c \in Sessions, e \in Emails, n \in OrganizationNames : CallSignup(c, e, n)
    \/ \E c \in Sessions : SignupCheckEmail(c)
    \/ \E c \in Sessions : SignupCheckOrganization(c)
    \/ \E c \in Sessions : SignupFlushOrganization(c)
    \/ \E c \in Sessions : SignupCommit(c)

AuthSpec == Init /\ [][NextAuth]_vars


\* ------------------------------------ get_transaction, get_transaction_ledger
\* GET /transactions/{transaction_id} by user u.
CallGetTransaction(c, u, t) ==
    Accept(c, "get_transaction",
           [user |-> u, org_id |-> UserOrg[u], transaction_id |-> t])

\* Mutant: reading a PENDING transaction marks it FAILED.
GetTransactionExpiring(c) ==
    /\ pc[c] = "get_transaction"
    /\ LET t == req[c].transaction_id
           found == get_transaction_by_id(t, req[c].org_id) IN
       IF found = Empty
       THEN Fail(c, TransactionNotFound)
       ELSE /\ Answer(c, [id |-> t] @@ found[t])
            /\ txns' = IF found[t].status = PENDING
                        THEN [txns EXCEPT ![t].status = FAILED] ELSE txns
            /\ UNCHANGED <<wallets, ledger, now, users, organizations>>

\* get_transaction: the row of the organization as a TransactionResponse,
\* or 404.
GetTransaction(c) ==
    /\ pc[c] = "get_transaction"
    /\ LET t == req[c].transaction_id
           found == get_transaction_by_id(t, req[c].org_id) IN
       IF found = Empty
       THEN Fail(c, TransactionNotFound)
       ELSE /\ Answer(c, [id |-> t] @@ found[t])
            /\ UNCHANGED <<wallets, txns, ledger, now, users, organizations>>

\* GET /transactions/{transaction_id}/ledger by user u.
CallLedger(c, u, t) ==
    Accept(c, "get_transaction_ledger",
           [user |-> u, org_id |-> UserOrg[u], transaction_id |-> t])

\* get_transaction_ledger first verifies that the transaction is in the
\* organization.
LedgerGet(c) ==
    /\ pc[c] = "get_transaction_ledger"
    /\ IF get_transaction_by_id(req[c].transaction_id, req[c].org_id) = Empty
       THEN Fail(c, TransactionNotFound)
       ELSE /\ pc' = [pc EXCEPT ![c] = "ledgerGot"]
            /\ UNCHANGED <<wallets, txns, ledger, now, served, req, loaded,
                           row, err, aux>>

\* Mutant: the statement has no WHERE clause.
LedgerEntriesForAny(t) == ledger

\* select(LedgerEntry).where(LedgerEntry.transaction_id == transaction_id).
LedgerEntriesFor(t) == {e \in ledger : e.transaction_id = t}

\* The second statement and the answer; the statement has no ORDER BY, so
\* the rows come in an order the database chooses.
LedgerSelect(c) ==
    /\ pc[c] = "ledgerGot"
    /\ \E q \in Arrangements(LedgerEntriesFor(req[c].transaction_id)) :
          Answer(c, [transaction_id |-> req[c].transaction_id,
                     ledger_entries |-> q])
    /\ UNCHANGED <<wallets, txns, ledger, now, users, organizations>>


\* ------------------------------------------------------ every operation
\* Every handler of the service next to every other, over the database
\* that holds the PENDING row: transfers of one unit between the wallets
\* of organization o1, cancellations, the three transaction queries, wallet
\* creations and status updates.
NextSystem ==
    \/ \E c \in Sessions, ep \in Endpoints, u \in Actors,
          s \in {"w1", "w2"}, r \in {"w1", "w2"} :
            Submit(c, ep, u, s, r, 1)
    \/ \E c \in Sessions : EngineStep(c)
    \/ \E c \in Sessions, u \in Actors, t \in TransactionIds : CallCancel(c, u, t)
    \/ \E c \in Sessions : CancelGet(c)
    \/ \E c \in Sessions : CancelCommit(c)
    \/ \E c \in Sessions, u \in Actors, t \in TransactionIds :
            CallGetTransaction(c, u, t)
    \/ \E c \in Sessions : GetTransaction(c)
    \/ \E c \in Sessions, u \in Actors, t \in TransactionIds : CallLedger(c, u, t)
    \/ \E c \in Sessions : LedgerGet(c)
    \/ \E c \in Sessions : LedgerSelect(c)
    \/ \E c \in Sessions, u \in Actors, st \in {"none", PENDING} :
            CallList(c, u, st, "none", 1, MaxPageSize)
    \/ \E c \in Sessions : ListCount(c)
    \/ \E c \in Sessions : ListPage(c)
    \/ \E c \in Sessions, u \in Actors, t \in {"PRIMARY", "BONUS"} :
            CallCreateWallet(c, u, t)
    \/ \E c \in Sessions : CreateCheck(c)
    \/ \E c \in Sessions : CreateCommit(c)
    \/ \E c \in Sessions, u \in Actors, w \in {"w1", "w2"}, st \in WalletStatus :
            CallUpdateStatus(c, u, w, st)
    \/ \E c \in Sessions : StatusGetWallet(c)
    \/ \E c \in Sessions : StatusCommit(c)

SystemSpec == InitCancel /\ [][NextSystem]_vars


\* -------------------------------------------------- update_wallet_balance
NoResultFound == "No row was found when one was required"

\* The signed amounts a caller may pass.
Deltas == (0 - MaxAmount)..MaxAmount

\* A call update_wallet_balance(wallet_id = w, amount = d).
CallUpdateBalance(c, w, d) ==
    Accept(c, "update_wallet_balance", [wallet_id |-> w, amount |-> d])

\* select(Wallet).where(Wallet.id == wallet_id); scalar_one() raises if
\* there is no row.
UpdateBalanceGet(c) ==
    /\ pc[c] = "update_wallet_balance"
    /\ IF req[c].wallet_id \notin DOMAIN wallets
       THEN Fail(c, NoResultFound)
       ELSE /\ loaded' = [loaded EXCEPT ![c] =
                            (req[c].wallet_id :> wallets[req[c].wallet_id])]
            /\ pc' = [pc EXCEPT ![c] = "balanceGot"]
            /\ UNCHANGED <<wallets, txns, ledger, now, served, req, row, err, aux>>

\* wallet.balance += amount; commit: the unit of work writes the balance if
\* it differs from the loaded one.  The function returns None.
UpdateBalanceCommit(c) ==
    /\ pc[c] = "balanceGot"
    /\ LET w == req[c].wallet_id
           new == loaded[c][w].balance + req[c].amount IN
       /\ wallets' = IF new # loaded[c][w].balance
                      THEN [wallets EXCEPT ![w].balance = new]
                      ELSE wallets
       /\ Answer(c, Empty)
    /\ now' = now + 1
    /\ UNCHANGED <<txns, ledger, users, organizations>>

NextBalance ==
    \/ \E c \in Sessions, w \in WalletIds \cup {UnknownWalletId}, d \in Deltas :
            CallUpdateBalance(c, w, d)
    \/ \E c \in Sessions : UpdateBalanceGet(c)
    \/ \E c \in Sessions : UpdateBalanceCommit(c)

BalanceSpec == Init /\ [][NextBalance]_vars


\* ------------------------------------------- rows created at the same time
\* The committed tables after two transfers of one unit w1 -> w2 that ran
\* side by side: both inserted their row at time 1, both read w1 before
\* either committed, and they committed at times 1 and 2.
TiedHistory ==
    (-1 :> HistoryRow("o1", "w1", "w2", 1, 1))
    @@ (-2 :> HistoryRow("o1", "w1", "w2", 1, 2))

InitTies ==
    /\ wallets = [SeedWallets EXCEPT !["w1"].balance = SeedBalance - 1,
                                     !["w2"].balance = 1]
    /\ txns = TiedHistory
    /\ ledger = HistoryEntries(-1, "w1", "w2") \cup HistoryEntries(-2, "w1", "w2")
    /\ now = 3
    /\ served = 0
    /\ pc = [c \in Sessions |-> "idle"]
    /\ req = [c \in Sessions |-> NoReq]
    /\ loaded = [c \in Sessions |-> Empty]
    /\ row = [c \in Sessions |-> Empty]
    /\ err = [c \in Sessions |-> "none"]
    /\ users = SeedUsers
    /\ organizations = SeedOrganizations
    /\ resp = [c \in Sessions |-> Empty]

OrderSpec == InitTies /\ [][NextQuery]_vars


\* ------------------------------------------------ get_transaction_summary
SummaryFailed == "Failed to retrieve transaction summary. Please try again."

\* TransactionFilter.page_size: Field(default=20, ge=1, le=100).
PageSizeLe == 100

\* The page size get_transaction_summary asks for.
SummaryPageSize == 1000

\* TransactionFilter(page, page_size): TRUE if the constructor raises.
TransactionFilterErrors(page, size) ==
    ~(page >= 1) \/ ~(size >= 1 /\ size <= PageSizeLe)

RECURSIVE SumOfAmounts(_)
\* sum(float(txn.amount) for txn in transactions)
SumOfAmounts(q) ==
    IF q = <<>> THEN 0 ELSE txns[Head(q)].amount + SumOfAmounts(Tail(q))

\* status_counts: the statuses that occur among the rows, each with the
\* number of rows that have it.
StatusCounts(q) ==
    [st \in {txns[q[i]].status : i \in DOMAIN q} |->
        Cardinality({i \in DOMAIN q : txns[q[i]].status = st})]

\* type_counts: every row has the column default INTERNAL_TRANSFER.
TypeCounts(q) ==
    [ty \in {"INTERNAL_TRANSFER" : i \in DOMAIN q} |-> Len(q)]

\* GET /transactions/summary by user u.
CallSummary(c, u) ==
    Accept(c, "get_transaction_summary", [user |-> u, org_id |-> UserOrg[u]])

\* The handler: it builds TransactionFilter(page=1, page_size=1000), whose
\* validation raises, and "except Exception" answers 500.  Past the
\* constructor it would list the first page of the organization and
\* aggregate the rows of that page.
Summary(c) ==
    /\ pc[c] = "get_transaction_summary"
    /\ IF TransactionFilterErrors(1, SummaryPageSize)
       THEN Fail(c, SummaryFailed)
       ELSE LET f == [status |-> "none", wallet_id |-> "none"] IN
            /\ \E q \in OrderedBy(Where(req[c].org_id, f)) :
                 LET page == OffsetLimit(q, 1, SummaryPageSize) IN
                 Answer(c, [total_transactions |->
                               Cardinality(Where(req[c].org_id, f)),
                            total_volume |-> SumOfAmounts(page),
                            status_distribution |-> StatusCounts(page),
                            type_distribution |-> TypeCounts(page)])
            /\ UNCHANGED <<wallets, txns, ledger, now, users, organizations>>

NextSummary ==
    \/ NextQuery
    \/ \E c \in Sessions, u \in Actors : CallSummary(c, u)
    \/ \E c \in Sessions : Summary(c)

SummarySpec == InitQuery /\ [][NextSummary]_vars


\* ---------------------------------------------- disjoint pairs of wallets
\* The seeded database with a second wallet in organization o2, so that
\* each organization has a funded and an empty wallet.
PairedWallets == SeedWallets @@ ("w4" :> Wallet("u3", "o2", "BONUS", 0))

InitPairs ==
    /\ wallets = PairedWallets
    /\ txns = Empty
    /\ ledger = {}
    /\ now = 1
    /\ served = 0
    /\ pc = [c \in Sessions |-> "idle"]
    /\ req = [c \in Sessions |-> NoReq]
    /\ loaded = [c \in Sessions |-> Empty]
    /\ row = [c \in Sessions |-> Empty]
    /\ err = [c \in Sessions |-> "none"]
    /\ users = SeedUsers
    /\ organizations = SeedOrganizations
    /\ resp = [c \in Sessions |-> Empty]

\* The wallets of user u's organization in that database.
PairOf(u) == {w \in DOMAIN PairedWallets : PairedWallets[w].org_id = UserOrg[u]}

\* The first transfer is between the wallets of o1 and the second between
\* those of o2, and each runs in a session of its own.
SubmitPair(c, a) ==
    /\ served < Cardinality(Sessions)
    /\ \E u \in (IF served = 0 THEN {"u1"} ELSE {"u3"}) :
          \E s \in PairOf(u), r \in PairOf(u) :
             s # r /\ Submit(c, "transactions", u, s, r, a)

NextPairs ==
    \/ \E c \in Sessions, a \in 1..MaxAmount : SubmitPair(c, a)
    \/ \E c \in Sessions : Progress(c)

PairSpec == InitPairs /\ [][NextPairs]_vars


\* ------------------------------------------ transactions of two tenants
\* The history of InitQuery, which holds a transaction of organization o2,
\* next to the PENDING row of organization o1.
InitTenants ==
    /\ wallets = SeedWallets
    /\ txns = SeedHistory @@ SeedTransactions
    /\ ledger = HistoryEntries(-1, "w1", "w2") \cup HistoryEntries(-2, "w3", "w3")
                   \cup HistoryEntries(-3, "w2", "w1")
    /\ now = 4
    /\ served = 0
    /\ pc = [c \in Sessions |-> "idle"]
    /\ req = [c \in Sessions |-> NoReq]
    /\ loaded = [c \in Sessions |-> Empty]
    /\ row = [c \in Sessions |-> Empty]
    /\ err = [c \in Sessions |-> "none"]
    /\ users = SeedUsers
    /\ organizations = SeedOrganizations
    /\ resp = [c \in Sessions |-> Empty]

\* A well-formed id that no transaction row has.
UnknownTransactionId == -4

\* A user of each organization.
Tenants == {"u1", "u3"}

\* The ids a request may name: those of the rows and the unknown one.
TenantTransactionIds == DOMAIN SeedHistory \cup DOMAIN SeedTransactions
                           \cup {UnknownTransactionId}

\* The requests that name a transaction, and the listing, by a user of
\* either organization.
NextTenants ==
    \/ \E c \in Sessions, u \in Tenants, t \in TenantTransactionIds :
            CallGetTransaction(c, u, t)
    \/ \E c \in Sessions : GetTransaction(c)
    \/ \E c \in Sessions, u \in Tenants, t \in TenantTransactionIds :
            CallLedger(c, u, t)
    \/ \E c \in Sessions : LedgerGet(c)
    \/ \E c \in Sessions : LedgerSelect(c)
    \/ \E c \in Sessions, u \in Tenants, t \in TenantTransactionIds :
            CallCancel(c, u, t)
    \/ \E c \in Sessions : CancelGet(c)
    \/ \E c \in Sessions : CancelCommit(c)
    \/ \E c \in Sessions, u \in Tenants, st \in {"none", PENDING} :
            CallList(c, u, st, "none", 1, MaxPageSize)
    \/ \E c \in Sessions : ListCount(c)
    \/ \E c \in Sessions : ListPage(c)

TenantSpec == InitTenants /\ [][NextTenants]_vars


\* ------------------------------------------------- queries on the wallets
AccessDenied == "Access denied to this wallet"

\* GET /wallets/{wallet_id}/balance by user u.
CallWalletBalance(c, u, w) ==
    Accept(c, "get_wallet_balance",
           [user |-> u, org_id |-> UserOrg[u], wallet_id |-> w])

\* get_wallet_balance: the balance of the organization's wallet, or 404.
WalletBalance(c) ==
    /\ pc[c] = "get_wallet_balance"
    /\ LET w == req[c].wallet_id
           ld == get_wallet_by_id(loaded[c], w, req[c].org_id) IN
       IF w \notin DOMAIN ld
       THEN Fail(c, WalletNotFound)
       ELSE /\ Answer(c, [wallet_id |-> w, balance |-> ld[w].balance])
            /\ UNCHANGED <<wallets, txns, ledger, now, users, organizations>>

\* GET /wallets/{wallet_id}/transactions by user u.
CallWalletTransactions(c, u, w, page, size) ==
    Accept(c, "get_wallet_transactions",
           [user |-> u, org_id |-> UserOrg[u], wallet_id |-> w,
            status |-> "none", page |-> page, page_size |-> size])

\* The endpoint's check that the wallet belongs to the current user.
HistoryOwner(c) ==
    /\ pc[c] = "get_wallet_transactions"
    /\ LET w == req[c].wallet_id
           ld == get_wallet_by_id(loaded[c], w, req[c].org_id) IN
       IF w \notin DOMAIN ld \/ ld[w].user_id # req[c].user
       THEN Fail(c, AccessDenied)
       ELSE /\ loaded' = [loaded EXCEPT ![c] = ld]
            /\ pc' = [pc EXCEPT ![c] = "historyOwned"]
            /\ UNCHANGED <<wallets, txns, ledger, now, served, req, row, err, aux>>

\* get_wallet_transaction_history: the wallet is looked up again, through
\* the identity map, and the rows it takes part in are counted.
HistoryCount(c) ==
    /\ pc[c] = "historyOwned"
    /\ LET ld == get_wallet_by_id(loaded[c], req[c].wallet_id, req[c].org_id) IN
       IF req[c].wallet_id \notin DOMAIN ld
       THEN Fail(c, WalletNotFound)
       ELSE /\ resp' = [resp EXCEPT ![c] =
                          [total_count |->
                              Cardinality(Where(req[c].org_id, req[c]))]]
            /\ pc' = [pc EXCEPT ![c] = "historyCounted"]
            /\ UNCHANGED <<wallets, txns, ledger, now, served, req, loaded,
                           row, err, users, organizations>>

\* The page query of the history and the answer.
HistoryPage(c) ==
    /\ pc[c] = "historyCounted"
    /\ \E q \in OrderedBy(Where(req[c].org_id, req[c])) :
          Answer(c, [transactions |-> OffsetLimit(q, req[c].page, req[c].page_size),
                     total_count |-> resp[c].total_count,
                     page |-> req[c].page, page_size |-> req[c].page_size])
    /\ UNCHANGED <<wallets, txns, ledger, now, users, organizations>>

\* GET /wallets/summary by user u.
CallWalletSummary(c, u) ==
    Accept(c, "get_wallet_summary", [user |-> u, org_id |-> UserOrg[u]])

\* The wallets of organization o, and the ACTIVE ones among them.
WalletsOf(o) == {w \in DOMAIN wallets : wallets[w].org_id = o}
ActiveWalletsOf(o) == {w \in WalletsOf(o) : wallets[w].status = ACTIVE}

RECURSIVE SumOfBalances(_)
\* func.sum(Wallet.balance) over the wallets S, 0 for no row.
SumOfBalances(S) ==
    IF S = {} THEN 0
    ELSE LET w == CHOOSE x \in S : TRUE IN
         wallets[w].balance + SumOfBalances(S \ {w})

\* get_wallet_summary runs three statements: the count of the wallets, the
\* sum of the ACTIVE balances and the count of the ACTIVE wallets.
WalletSummaryTotal(c) ==
    /\ pc[c] = "get_wallet_summary"
    /\ resp' = [resp EXCEPT ![c] =
                  [total_wallets |-> Cardinality(WalletsOf(req[c].org_id))]]
    /\ pc' = [pc EXCEPT ![c] = "summaryTotal"]
    /\ UNCHANGED <<wallets, txns, ledger, now, served, req, loaded, row, err,
                   users, organizations>>

WalletSummaryBalance(c) ==
    /\ pc[c] = "summaryTotal"
    /\ resp' = [resp EXCEPT ![c] =
                  [total_wallets |-> resp[c].total_wallets,
                   total_balance |-> SumOfBalances(ActiveWalletsOf(req[c].org_id))]]
    /\ pc' = [pc EXCEPT ![c] = "summaryBalance"]
    /\ UNCHANGED <<wallets, txns, ledger, now, served, req, loaded, row, err,
                   users, organizations>>

WalletSummaryActive(c) ==
    /\ pc[c] = "summaryBalance"
    /\ Answer(c, [total_wallets |-> resp[c].total_wallets,
                  active_wallets |-> Cardinality(ActiveWalletsOf(req[c].org_id)),
                  total_balance |-> resp[c].total_balance])
    /\ UNCHANGED <<wallets, txns, ledger, now, users, organizations>>

\* ------------------------------------------------------------ the queries
\* Every query of the service next to transfers of one unit between the
\* wallets of organization o1, over the database that holds the PENDING row.
NextReads ==
    \/ \E c \in Sessions, u \in Actors, s \in {"w1", "w2"}, r \in {"w1", "w2"} :
            Submit(c, "transactions", u, s, r, 1)
    \/ \E c \in Sessions : GetSender(c)
    \/ \E c \in Sessions : GetReceiver(c)
    \/ \E c \in Sessions : CheckAndFlush(c)
    \/ \E c \in Sessions : Commit(c)
    \/ \E c \in Sessions, u \in Actors, t \in TransactionIds :
            CallGetTransaction(c, u, t)
    \/ \E c \in Sessions : GetTransaction(c)
    \/ \E c \in Sessions, u \in Actors, t \in TransactionIds : CallLedger(c, u, t)
    \/ \E c \in Sessions : LedgerGet(c)
    \/ \E c \in Sessions : LedgerSelect(c)
    \/ \E c \in Sessions, u \in Actors, st \in {"none", PENDING} :
            CallList(c, u, st, "none", 1, MaxPageSize)
    \/ \E c \in Sessions : ListCount(c)
    \/ \E c \in Sessions : ListPage(c)
    \/ \E c \in Sessions, u \in Actors : CallSummary(c, u)
    \/ \E c \in Sessions : Summary(c)
    \/ \E c \in Sessions, u \in Actors, w \in WalletIds : CallWalletBalance(c, u, w)
    \/ \E c \in Sessions : WalletBalance(c)
    \/ \E c \in Sessions, u \in Actors, w \in WalletIds :
            CallWalletTransactions(c, u, w, 1, MaxPageSize)
    \/ \E c \in Sessions : HistoryOwner(c)
    \/ \E c \in Sessions : HistoryCount(c)
    \/ \E c \in Sessions : HistoryPage(c)
    \/ \E c \in Sessions, u \in Actors : CallWalletSummary(c, u)
    \/ \E c \in Sessions : WalletSummaryTotal(c)
    \/ \E c \in Sessions : WalletSummaryBalance(c)
    \/ \E c \in Sessions : WalletSummaryActive(c)

ReadSpec == InitCancel /\ [][NextReads]_vars


\* ------------------------------------- create_wallet, update_wallet_status
\* The database after user u1 has had the PRIMARY wallet w1 closed through
\* update_wallet_status(w1, o1, CLOSED).
ClosedPrimary == [SeedWallets EXCEPT !["w1"].status = CLOSED]

InitClosed ==
    /\ wallets = ClosedPrimary
    /\ txns = Empty
    /\ ledger = {}
    /\ now = 2
    /\ served = 0
    /\ pc = [c \in Sessions |-> "idle"]
    /\ req = [c \in Sessions |-> NoReq]
    /\ loaded = [c \in Sessions |-> Empty]
    /\ row = [c \in Sessions |-> Empty]
    /\ err = [c \in Sessions |-> "none"]
    /\ users = SeedUsers
    /\ organizations = SeedOrganizations
    /\ resp = [c \in Sessions |-> Empty]

\* Wallet creations next to status updates of the seeded wallets.
NextWalletStatus ==
    \/ \E c \in Sessions, u \in Users, t \in WalletTypes : CallCreateWallet(c, u, t)
    \/ \E c \in Sessions : CreateCheck(c)
    \/ \E c \in Sessions : CreateCommit(c)
    \/ \E c \in Sessions, u \in Users, w \in WalletIds, st \in WalletStatus :
            CallUpdateStatus(c, u, w, st)
    \/ \E c \in Sessions : StatusGetWallet(c)
    \/ \E c \in Sessions : StatusCommit(c)

WalletStatusSpec == InitClosed /\ [][NextWalletStatus]_vars


\* ================================================================ claims
Completed(tx, t) == t \in DOMAIN tx /\ tx[t].status = COMPLETED
EntriesOf(l, t) == {e \in l : e.transaction_id = t}
CommitStep(c) == pc[c] = "flushed" /\ pc'[c] = "done"
HandlerStep(c) == pc'[c] # pc[c]
SeedBal == [w \in WalletIds |-> SeedWallets[w].balance]

\* C1: in the step that completes a transfer, the sender's committed balance
\* after it plus the amount equals the sender's balance before it, and the
\* receiver's balance after it minus the amount equals its balance before.
C1_BalancesMoveByAmount ==
    [][\A c \in Sessions : CommitStep(c) =>
          /\ wallets'[Sender(c)].balance + req[c].amount
                = wallets[Sender(c)].balance
          /\ wallets'[Receiver(c)].balance - req[c].amount
                = wallets[Receiver(c)].balance]_vars

\* C2: every committed COMPLETED transaction has exactly two ledger entries,
\* a DEBIT of -amount on its sender wallet and a CREDIT of +amount on its
\* receiver wallet, so that its entries sum to zero.
C2_DoubleEntry ==
    \A t \in DOMAIN txns : txns[t].status = COMPLETED =>
        /\ Cardinality(EntriesOf(ledger, t)) = 2
        /\ \E d \in EntriesOf(ledger, t), k \in EntriesOf(ledger, t) :
              /\ d.type = DEBIT
              /\ d.wallet_id = txns[t].sender_wallet_id
              /\ d.amount = -txns[t].amount
              /\ k.type = CREDIT
              /\ k.wallet_id = txns[t].receiver_wallet_id
              /\ k.amount = txns[t].amount
              /\ d.amount + k.amount = 0

C2_Witness ==
    \E t \in DOMAIN txns :
        /\ txns[t].status = COMPLETED
        /\ txns[t].sender_wallet_id # txns[t].receiver_wallet_id
        /\ Cardinality(EntriesOf(ledger, t)) = 2

\* C3: no committed wallet balance is negative, whatever the interleaving
\* of the transfer handlers.
C3_NoNegativeBalance == \A w \in DOMAIN wallets : wallets[w].balance >= 0

\* Two transfers out of w1 have committed that together move more than w1
\* ever held: both passed the balance check on the same stale read.
C3_Witness ==
    \E t \in DOMAIN txns, u \in DOMAIN txns :
        /\ t # u
        /\ txns[t].sender_wallet_id = "w1" /\ txns[u].sender_wallet_id = "w1"
        /\ \A v \in DOMAIN txns : txns[v].receiver_wallet_id # "w1"
        /\ txns[t].amount + txns[u].amount > SeedBalance

\* C4: two concurrent transfers out of one wallet, each for its full
\* balance, never both complete.  (A wallet that is never credited can pay
\* out its seeded balance twice only to concurrent transfers.)
C4_OneOfTwoCompletes ==
    ~ \E t \in DOMAIN txns, u \in DOMAIN txns :
        /\ t # u
        /\ Completed(txns, t) /\ Completed(txns, u)
        /\ txns[t].sender_wallet_id = txns[u].sender_wallet_id
        /\ \A v \in DOMAIN txns :
              txns[v].receiver_wallet_id # txns[t].sender_wallet_id
        /\ txns[t].amount = SeedBal[txns[t].sender_wallet_id]
        /\ txns[u].amount = SeedBal[txns[u].sender_wallet_id]

\* One transfer run alone on the balances b.
RunAlone(b, t) ==
    IF b[t.sender_wallet_id] < t.amount THEN b
    ELSE LET debited == [b EXCEPT ![t.sender_wallet_id] = @ - t.amount]
         IN  [debited EXCEPT ![t.receiver_wallet_id] = @ + t.amount]

\* C5: when two transfers that share a wallet have both committed, the
\* shared wallet's balance is the one that running the two transfers one
\* after the other, in one of the two orders, produces.
C5_NoLostUpdate ==
    \A t \in DOMAIN txns, u \in DOMAIN txns :
        (t # u /\ DOMAIN txns = {t, u}) =>
            \A w \in {txns[t].sender_wallet_id, txns[t].receiver_wallet_id}
                     \cap {txns[u].sender_wallet_id, txns[u].receiver_wallet_id} :
                wallets[w].balance \in
                    {RunAlone(RunAlone(SeedBal, txns[t]), txns[u])[w],
                     RunAlone(RunAlone(SeedBal, txns[u]), txns[t])[w]}

\* C6: the flip to COMPLETED, the balance changes and the two ledger inserts
\* of a transfer reach the committed state in one step: a step that changes
\* a balance adds a ledger entry on that wallet for a transaction it
\* completes, a step that completes a transaction adds exactly its two
\* entries, and no entry is added but for a transaction the step completes.
C6_VisibleTogether ==
    [][/\ \A w \in DOMAIN wallets :
            wallets'[w].balance # wallets[w].balance =>
                \E e \in ledger' \ ledger :
                    /\ e.wallet_id = w
                    /\ Completed(txns', e.transaction_id)
                    /\ ~Completed(txns, e.transaction_id)
       /\ \A t \in DOMAIN txns' :
            (Completed(txns', t) /\ ~Completed(txns, t)) =>
                /\ EntriesOf(ledger, t) = {}
                /\ Cardinality(EntriesOf(ledger', t)) = 2
       /\ \A e \in ledger' \ ledger :
            /\ Completed(txns', e.transaction_id)
            /\ ~Completed(txns, e.transaction_id)]_vars

\* A transfer has committed while the other session is inside the engine.
C6_Witness ==
    \E t \in DOMAIN txns, c \in Sessions :
        /\ Completed(txns, t)
        /\ wallets[txns[t].receiver_wallet_id].balance
              # SeedBal[txns[t].receiver_wallet_id]
        /\ pc[c] \in {"gotS", "gotR", "flushed"}

\* C7: a step of a handler that does not complete the transfer leaves the
\* committed state as it was, and when a handler fails the committed state
\* holds no Transaction row and no ledger entry of its request.
C7_FailureLeavesNoTrace ==
    [][\A c \in Sessions :
          /\ (HandlerStep(c) /\ pc'[c] # "done") => db' = db
          /\ (pc[c] \notin Free /\ pc'[c] = "failed") =>
                /\ req[c].id \notin DOMAIN txns'
                /\ EntriesOf(ledger', req[c].id) = {}]_vars

\* One request has failed on a fault inside the try block and another on a
\* precondition.
C7_Witness ==
    /\ pc["s1"] = "failed" /\ err["s1"] = InternalError
    /\ pc["s2"] = "failed" /\ err["s2"] = Insufficient

\* C8: a request whose sender and receiver are the same wallet never enters
\* a handler and no Transaction row is written for it.
C8_SameWalletRejected ==
    /\ \A c \in Sessions : pc[c] \notin Free => Sender(c) # Receiver(c)
    /\ \A t \in DOMAIN txns :
          txns[t].sender_wallet_id # txns[t].receiver_wallet_id

\* C9: when the engine checks a transfer between two found, ACTIVE wallets
\* whose amount exceeds the sender balance it read, the request fails (with
\* "Insufficient balance in sender wallet", or on a fault) and the
\* committed state is unchanged; a transfer commits only with an amount
\* within the balance it read.
C9_InsufficientFundsRejected ==
    [][\A c \in Sessions :
          /\ (/\ pc[c] = "gotR" /\ HandlerStep(c)
              /\ PreconditionErrorNoBalance(c) = "ok"
              /\ req[c].amount > loaded[c][Sender(c)].balance)
             => /\ pc'[c] = "failed"
                /\ err'[c] \in {Insufficient, InternalError}
                /\ db' = db
          /\ CommitStep(c) => req[c].amount <= loaded[c][Sender(c)].balance
          /\ (pc[c] = "engine" /\ pc'[c] = "gotS" /\ Found(c, Sender(c))'
              /\ ~Found(c, Sender(c)))
             => loaded'[c][Sender(c)].balance = wallets[Sender(c)].balance]_vars

C9_Witness ==
    \E c \in Sessions :
        /\ pc[c] = "failed" /\ err[c] = Insufficient
        /\ db = <<SeedWallets, Empty, {}>>

\* C10: a request whose amount is zero or negative never enters a handler:
\* the handlers serve, and the tables hold, positive amounts only, and a
\* rejected request has loaded and flushed nothing.
C10_NonPositiveAmountRejected ==
    /\ \A c \in Sessions : pc[c] \notin Free => req[c].amount > 0
    /\ \A c \in Sessions :
          pc[c] = "rejected" => loaded[c] = Empty /\ row[c] = Empty
    /\ \A t \in DOMAIN txns : txns[t].amount > 0
    /\ \A e \in ledger : e.amount # 0

C10_Witness ==
    \E c \in Sessions :
        /\ pc[c] = "rejected"
        /\ err[c] \in {"amount", "receiver_wallet_id, amount"}
        /\ db = <<SeedWallets, Empty, {}>>

\* C11: a fresh session's get_wallet_by_id(w, o) finds nothing for a wallet
\* of another organization, exactly as for an id no wallet has; and when
\* the engine checks a transfer whose sender or receiver wallet is not in
\* the request's organization, the request fails with "One or both wallets
\* not found" (or on a fault) and no committed row of any organization
\* changes; a transfer commits only between two wallets of the request's
\* organization.
C11_TenantIsolation ==
    [][/\ \A o \in Orgs, w \in DOMAIN wallets :
            wallets[w].org_id # o =>
                /\ get_wallet_by_id(Empty, w, o)
                      = get_wallet_by_id(Empty, UnknownWalletId, o)
                /\ w \notin DOMAIN get_wallet_by_id(Empty, w, o)
       /\ \A c \in Sessions :
            /\ (/\ pc[c] = "gotR" /\ HandlerStep(c)
                /\ \E w \in {Sender(c), Receiver(c)} :
                      wallets[w].org_id # req[c].org_id)
               => /\ pc'[c] = "failed"
                  /\ err'[c] \in {NotFound, InternalError}
                  /\ db' = db
            /\ CommitStep(c) =>
                  \A w \in {Sender(c), Receiver(c)} :
                      wallets[w].org_id = req[c].org_id]_vars

\* A transfer naming the wallet of the other organization was answered
\* "not found" and the seeded balances are all in place.
C11_Witness ==
    \E c \in Sessions :
        /\ pc[c] = "failed" /\ err[c] = NotFound
        /\ db = <<SeedWallets, Empty, {}>>

\* C12: when the engine checks a transfer between two found wallets of
\* which it read one as LOCKED or CLOSED, the request fails with "One or
\* both wallets are not active" (or on a fault) and the committed state is
\* unchanged; a transfer commits only if it read both wallets as ACTIVE;
\* and a wallet is read with the status committed at the time of the read.
C12_InactiveWalletRejected ==
    [][\A c \in Sessions :
          /\ (/\ pc[c] = "gotR" /\ HandlerStep(c)
              /\ Found(c, Sender(c)) /\ Found(c, Receiver(c))
              /\ \E w \in {Sender(c), Receiver(c)} :
                    loaded[c][w].status \in {LOCKED, CLOSED})
             => /\ pc'[c] = "failed"
                /\ err'[c] \in {NotActive, InternalError}
                /\ db' = db
          /\ CommitStep(c) =>
                \A w \in {Sender(c), Receiver(c)} : loaded[c][w].status = ACTIVE
          /\ \A w \in DOMAIN loaded'[c] :
                w \notin DOMAIN loaded[c] => loaded'[c][w] = wallets[w]]_vars

\* A transfer was refused because a wallet was not active: some wallet is
\* LOCKED or CLOSED and no balance has moved.
C12_Witness ==
    \E c \in Sessions :
        /\ pc[c] = "failed" /\ err[c] = NotActive
        /\ \E w \in DOMAIN wallets : wallets[w].status \in {LOCKED, CLOSED}
        /\ \A w \in DOMAIN wallets : wallets[w].balance = SeedBal[w]
        /\ txns = Empty /\ ledger = {}

Terminal == {COMPLETED, CANCELLED, FAILED}

\* C13: when cancel_transaction reads a transaction of the caller's
\* organization whose status is COMPLETED, CANCELLED or FAILED, the request
\* fails with "Only pending transactions can be cancelled" and every
\* transaction row, wallet balance and ledger entry is as before.
C13_CancelTerminalRefused ==
    [][\A c \in Sessions :
          (/\ pc[c] = "cancel_transaction" /\ HandlerStep(c)
           /\ req[c].transaction_id \in DOMAIN txns
           /\ txns[req[c].transaction_id].org_id = req[c].org_id
           /\ txns[req[c].transaction_id].status \in Terminal)
          => /\ pc'[c] = "failed"
             /\ err'[c] = OnlyPending
             /\ db' = db]_vars

\* The only transaction there is was cancelled, and a second cancel of it
\* has been refused.
C13_Witness ==
    \E c \in Sessions :
        /\ pc[c] = "failed" /\ err[c] = OnlyPending
        /\ DOMAIN txns = {0} /\ txns[0].status = CANCELLED
        /\ wallets = SeedWallets /\ ledger = {}

\* C14: a committed transaction row is never removed, its status changes
\* only from PENDING and only to COMPLETED, CANCELLED or FAILED, and the row
\* a transfer commits as COMPLETED was PENDING inside its session.
C14_Lifecycle ==
    [][/\ \A t \in DOMAIN txns :
            /\ t \in DOMAIN txns'
            /\ txns'[t].status # txns[t].status =>
                  /\ txns[t].status = PENDING
                  /\ txns'[t].status \in Terminal
       /\ \A t \in DOMAIN txns' \ DOMAIN txns :
            /\ txns'[t].status = COMPLETED
            /\ \E c \in Sessions :
                  /\ CommitStep(c) /\ t \in DOMAIN row[c]
                  /\ row[c][t].status = PENDING]_vars

\* One transaction has been cancelled and another has completed.
C14_Witness ==
    /\ txns[0].status = CANCELLED
    /\ \E t \in DOMAIN txns : txns[t].status = COMPLETED

\* C15: whatever the interleaving of create_wallet calls, no user has two
\* ACTIVE PRIMARY wallets.
C15_OneActivePrimary ==
    \A u \in Users : Cardinality(ActivePrimaryWallets(u)) <= 1

\* Session c waits for a row that session d has locked.
WaitsFor(c, d) == c # d /\ Wanted(c) \cap Held(d) # {}

\* Position of a wallet id in the ascending order of the ids.
Rank(w) == CHOOSE i \in 1..Len(WalletOrder) : WalletOrder[i] = w

C17_SuccessAfterCommit ==
    [][\A c \in Sessions :
          (pc[c] \notin Free /\ pc'[c] = "done") =>
             /\ req[c].id \notin DOMAIN txns
             /\ EntriesOf(ledger, req[c].id) = {}
             /\ Completed(txns', req[c].id)
             /\ txns'[req[c].id].amount = req[c].amount
             /\ EntriesOf(ledger', req[c].id) = LedgerPair(c)
             /\ Sender(c) # Receiver(c) =>
                   /\ wallets'[Sender(c)].balance
                         = loaded[c][Sender(c)].balance - req[c].amount
                   /\ wallets'[Receiver(c)].balance
                         = loaded[c][Receiver(c)].balance + req[c].amount]_vars

\* A request has been answered with success and its five effects are in
\* the committed tables.
C17_Witness ==
    \E c \in Sessions :
        /\ pc[c] = "done"
        /\ DOMAIN txns = {1} /\ Completed(txns, 1)
        /\ Cardinality(EntriesOf(ledger, 1)) = 2
        /\ wallets[txns[1].sender_wallet_id].balance
              = SeedBal[txns[1].sender_wallet_id] - txns[1].amount
        /\ wallets[txns[1].receiver_wallet_id].balance
              = SeedBal[txns[1].receiver_wallet_id] + txns[1].amount

\* The committed transactions of organization o that wallet w sends or
\* receives.
OfWallet(o, w) ==
    {t \in DOMAIN txns :
        /\ txns[t].org_id = o
        /\ w \in {txns[t].sender_wallet_id, txns[t].receiver_wallet_id}}

\* C18: the page a listing with a wallet_id filter (and no status filter)
\* answers with holds only transactions of the caller's organization that
\* the wallet sends or receives, each once, in descending created_at; it
\* has as many rows as the committed result has on the requested range,
\* the rows before the page are at least as new as its first row and the
\* rows after it at most as new as its last; a page that covers the whole
\* result holds every such transaction.
C18_ListByWallet ==
    [][\A c \in Sessions :
          (pc[c] = "counted" /\ pc'[c] = "done"
           /\ req[c].wallet_id # "none" /\ req[c].status = "none") =>
             LET M == OfWallet(req[c].org_id, req[c].wallet_id)
                 items == resp'[c].transactions
                 n == Len(items)
                 skip == (req[c].page - 1) * req[c].page_size
                 at(t) == txns[t].created_at
             IN  /\ \A i \in 1..n : items[i] \in M
                 /\ \A i, j \in 1..n : i # j => items[i] # items[j]
                 /\ \A i, j \in 1..n : i < j => at(items[i]) >= at(items[j])
                 /\ n = IF Cardinality(M) - skip < 0 THEN 0
                        ELSE IF Cardinality(M) - skip < req[c].page_size
                             THEN Cardinality(M) - skip
                             ELSE req[c].page_size
                 /\ n > 0 =>
                       /\ Cardinality({t \in M : at(t) > at(items[1])}) <= skip
                       /\ Cardinality({t \in M : at(t) >= at(items[n])}) >= skip + n
                 /\ (skip = 0 /\ req[c].page_size >= Cardinality(M)) =>
                       {items[i] : i \in 1..n} = M]_vars

\* A listing filtered by w1 has answered with the two transactions of w1,
\* the newer one first, while the tables hold a transaction of another
\* organization.
C18_Witness ==
    \E c \in Sessions :
        /\ pc[c] = "done" /\ resp[c] # Empty
        /\ resp[c].transactions = <<-3, -1>>
        /\ txns = SeedHistory
        /\ txns[-2].org_id = "o2"

\* C19: a transfer commits only if its sender wallet belongs to the user
\* who made the request, on either endpoint.
C19_SenderOwnedByCaller ==
    [][\A c \in Sessions :
          CommitStep(c) => wallets[Sender(c)].user_id = req[c].user]_vars

\* Every email belongs to at most one user and every organization name to
\* at most one organization.
UniqueRows(us, os) ==
    /\ \A u, v \in DOMAIN us : us[u].email = us[v].email => u = v
    /\ \A o, q \in DOMAIN os : os[o].name = os[q].name => o = q

\* C20: when signup checks an email that a committed user has, the request
\* fails with "User with this email already exists" and the users and
\* organizations tables are as before; and in every committed state no two
\* users share an email and no two organizations share a name.
C20_DuplicateSignupRejected ==
    [][/\ \A c \in Sessions :
            (/\ pc[c] = "signup" /\ HandlerStep(c)
             /\ \E u \in DOMAIN users : users[u].email = req[c].email)
            => /\ pc'[c] = "failed"
               /\ err'[c] = UserExists
               /\ users' = users
               /\ organizations' = organizations
       /\ UniqueRows(users, organizations)
       /\ UniqueRows(users', organizations')]_vars

\* A signup has created user and organization, and a second signup with
\* the same email and another organization name has been refused, leaving
\* one user with that email and no organization of that name.
C20_Witness ==
    \E c \in Sessions :
        /\ pc[c] = "failed" /\ err[c] = UserExists
        /\ Cardinality(DOMAIN users) = Cardinality(DOMAIN SeedUsers) + 1
        /\ Cardinality(DOMAIN organizations)
              = Cardinality(DOMAIN SeedOrganizations) + 1

\* C21: a transfer is refused for the first precondition that fails, in the
\* order same wallet, amount, wallets found, wallets ACTIVE, balance: when
\* the engine refuses with one of its three errors, the two wallets differ
\* and the amount is positive, "not active" is reported only if both
\* wallets were found, and "insufficient balance" only if both were found
\* and both are ACTIVE.
C21_FirstFailingPrecondition ==
    [][\A c \in Sessions :
          (pc[c] = "gotR" /\ pc'[c] = "failed"
             /\ err'[c] \in {NotFound, NotActive, Insufficient})
          => /\ Sender(c) # Receiver(c)
             /\ req[c].amount > 0
             /\ err'[c] = NotActive
                  => Found(c, Sender(c)) /\ Found(c, Receiver(c))
             /\ err'[c] = Insufficient
                  => /\ Found(c, Sender(c)) /\ Found(c, Receiver(c))
                     /\ loaded[c][Sender(c)].status = ACTIVE
                     /\ loaded[c][Receiver(c)].status = ACTIVE]_vars

\* C22: in every committed state a transaction that is not COMPLETED has no
\* ledger entries and every ledger entry references a COMPLETED
\* transaction; the ledger query answers the empty sequence for a
\* transaction that is not COMPLETED.
C22_LedgerOnlyForCompleted ==
    /\ \A t \in DOMAIN txns :
          txns[t].status # COMPLETED => EntriesOf(ledger, t) = {}
    /\ \A e \in ledger : Completed(txns, e.transaction_id)
    /\ \A c \in Sessions :
          ("ledger_entries" \in DOMAIN resp[c]
             /\ ~Completed(txns, resp[c].transaction_id))
          => resp[c].ledger_entries = <<>>

\* The ledger of the PENDING transaction has been asked for and is empty
\* while a completed transfer has its entries in the table.
C22_Witness ==
    \E c \in Sessions :
        /\ pc[c] = "done"
        /\ "ledger_entries" \in DOMAIN resp[c]
        /\ resp[c].transaction_id = 0
        /\ resp[c].ledger_entries = <<>>
        /\ txns[0].status = PENDING
        /\ ledger # {}

\* The step in which cancel_transaction commits.
CancelStep(c) == pc[c] = "cancelGot" /\ pc'[c] = "done"

\* C23: the commit of cancel_transaction on a PENDING transaction of the
\* caller's organization sets the row's status to CANCELLED and leaves
\* every wallet, every ledger entry, every other transaction and the row's
\* other columns as they were.
C23_CancelFrame ==
    [][\A c \in Sessions :
          CancelStep(c) =>
            LET t == req[c].transaction_id IN
            /\ txns[t].org_id = req[c].org_id
            /\ txns'[t].status = CANCELLED
            /\ DOMAIN txns' = DOMAIN txns
            /\ \A x \in DOMAIN txns \ {t} : txns'[x] = txns[x]
            /\ txns'[t] = [txns[t] EXCEPT !.status = CANCELLED]
            /\ wallets' = wallets
            /\ ledger' = ledger]_vars

\* The PENDING transaction has been cancelled after a transfer completed.
C23_Witness ==
    /\ 0 \in DOMAIN txns /\ txns[0].status = CANCELLED
    /\ \E c \in Sessions : pc[c] = "done" /\ resp[c] # Empty
                              /\ "status" \in DOMAIN resp[c]
                              /\ resp[c].status = CANCELLED
    /\ ledger # {}

\* The transactions that create_internal_transfer has produced.
Produced(tx) == DOMAIN tx \ DOMAIN SeedTransactions

\* C24: no transaction produced by a transfer is committed in status
\* PENDING, and no concurrent request finds one: get_transaction never
\* answers one, a listing of the PENDING transactions never holds one, and
\* cancel_transaction never accepts one.
C24_NoPendingTransferVisible ==
    /\ [](\A t \in Produced(txns) : txns[t].status # PENDING)
    /\ [](\A c \in Sessions :
            ("id" \in DOMAIN resp[c] /\ resp[c].id \notin DOMAIN SeedTransactions)
            => resp[c].status # PENDING)
    /\ [][\A c \in Sessions :
            /\ (pc[c] = "counted" /\ pc'[c] = "done" /\ req[c].status = PENDING)
               => \A i \in DOMAIN resp'[c].transactions :
                     resp'[c].transactions[i] \in DOMAIN SeedTransactions
            /\ (pc[c] = "cancel_transaction" /\ pc'[c] = "cancelGot")
               => req[c].transaction_id \in DOMAIN SeedTransactions]_vars

\* A transfer has flushed its PENDING row and not yet committed while a
\* request that names the row's id is about to read the table.
C24_Witness ==
    \E c, d \in Sessions :
        /\ pc[d] = "flushed"
        /\ pc[c] \in {"get_transaction", "cancel_transaction"}
        /\ req[c].transaction_id \in DOMAIN row[d]
        /\ row[d][req[c].transaction_id].status = PENDING

\* C25: in every committed state a transaction has completed_at set exactly
\* if its status is COMPLETED, and the commit of cancel_transaction leaves
\* completed_at as it was.
C25_CompletedAtIffCompleted ==
    /\ [](\A t \in DOMAIN txns :
            txns[t].completed_at # 0 <=> txns[t].status = COMPLETED)
    /\ [][\A c \in Sessions :
            CancelStep(c) =>
              txns'[req[c].transaction_id].completed_at
                 = txns[req[c].transaction_id].completed_at]_vars

\* A completed transfer with its stamp next to the cancelled transaction
\* without one.
C25_Witness ==
    /\ \E t \in DOMAIN txns :
          txns[t].status = COMPLETED /\ txns[t].completed_at # 0
    /\ \E t \in DOMAIN txns :
          txns[t].status = CANCELLED /\ txns[t].completed_at = 0

\* C26: the ledger is append-only: every step of every operation leaves
\* each committed ledger entry in the table with the columns it had.
C26_LedgerAppendOnly == [][ledger \subseteq ledger']_vars

\* Two transfers have completed: the entries of the first are in the table
\* next to those of the second.
C26_Witness ==
    /\ Cardinality(ledger) = 4
    /\ \A t \in {1, 2} : Completed(txns, t) /\ Cardinality(EntriesOf(ledger, t)) = 2

C28_NegativeDeltaRejected ==
    [][\A c \in Sessions :
          (pc[c] = "balanceGot" /\ HandlerStep(c)
             /\ loaded[c][req[c].wallet_id].balance + req[c].amount < 0)
          => pc'[c] = "failed" /\ wallets' = wallets]_vars

\* C29: the listing order is total: the page a listing is about to answer
\* is determined by the committed rows and the request.
C29_ListingDetermined ==
    \A c \in Sessions :
        pc[c] = "counted" =>
          \A q1, q2 \in OrderedBy(Where(req[c].org_id, req[c])) :
              OffsetLimit(q1, req[c].page, req[c].page_size)
                = OffsetLimit(q2, req[c].page, req[c].page_size)

\* C30: a listing answers items and total_count of one snapshot: when the
\* page query runs, total_count is the number of rows that match the filter
\* in the table it reads.
C30_CountOfSameSnapshot ==
    [][\A c \in Sessions :
          (pc[c] = "counted" /\ pc'[c] = "done")
          => resp'[c].total_count = Cardinality(Where(req[c].org_id, req[c]))]_vars

\* The transactions of organization o.
OfOrganization(o) == {t \in DOMAIN txns : txns[t].org_id = o}

RECURSIVE SumOver(_)
SumOver(S) ==
    IF S = {} THEN 0
    ELSE LET t == CHOOSE x \in S : TRUE IN txns[t].amount + SumOver(S \ {t})

RECURSIVE SumOfCounts(_)
SumOfCounts(f) ==
    IF DOMAIN f = {} THEN 0
    ELSE LET k == CHOOSE x \in DOMAIN f : TRUE IN
         f[k] + SumOfCounts([x \in DOMAIN f \ {k} |-> f[x]])

\* C31: the summary handler answers with total_transactions the number of
\* the organization's transactions, equal to the sum of the status counts
\* and to the sum of the type counts, and with total_volume the sum of
\* their amounts.
C31_SummaryOverWholeSet ==
    [][\A c \in Sessions :
          (pc[c] = "get_transaction_summary" /\ HandlerStep(c))
          => /\ pc'[c] = "done"
             /\ resp'[c].total_transactions
                   = Cardinality(OfOrganization(req[c].org_id))
             /\ resp'[c].total_transactions
                   = SumOfCounts(resp'[c].status_distribution)
             /\ resp'[c].total_transactions
                   = SumOfCounts(resp'[c].type_distribution)
             /\ resp'[c].total_volume = SumOver(OfOrganization(req[c].org_id))]_vars

\* The error the transfer request q meets when it runs alone on the
\* database of InitPairs, "ok" if it completes.
AloneError(q) ==
    IF PairedWallets[q.sender_wallet_id].balance < q.amount
    THEN Insufficient ELSE "ok"

\* C32: of two transfers on disjoint pairs of wallets neither waits for a
\* row the other has locked, and each ends as it does alone: it is refused
\* with the same error and changes nothing, or it completes, moving its
\* amount between its own two wallets from their initial balances, adding
\* its two ledger entries and leaving the other wallets as they are.
C32_DisjointTransfersIndependent ==
    /\ [](\A c, d \in Sessions : c # d => Wanted(c) \cap Held(d) = {})
    /\ [][\A c \in Sessions :
            /\ (pc[c] = "gotR" /\ HandlerStep(c))
               => IF AloneError(req[c]) = "ok"
                  THEN pc'[c] = "flushed"
                  ELSE /\ pc'[c] = "failed" /\ err'[c] = AloneError(req[c])
                       /\ UNCHANGED db
            /\ (pc[c] # "failed" /\ pc'[c] = "failed") => pc[c] = "gotR"
            /\ (pc[c] # "done" /\ pc'[c] = "done")
               => /\ AloneError(req[c]) = "ok"
                  /\ wallets'[Sender(c)].balance
                        = PairedWallets[Sender(c)].balance - req[c].amount
                  /\ wallets'[Receiver(c)].balance
                        = PairedWallets[Receiver(c)].balance + req[c].amount
                  /\ \A w \in DOMAIN wallets \ {Sender(c), Receiver(c)} :
                        wallets'[w] = wallets[w]
                  /\ ledger' = ledger \cup LedgerPair(c)
                  /\ Completed(txns', req[c].id)]_vars

\* Both transfers have completed after running side by side: each inserted
\* its row before the other committed.
C32_Witness ==
    /\ Completed(txns, 1) /\ Completed(txns, 2)
    /\ txns[1].created_at = txns[2].created_at
    /\ \A w \in DOMAIN wallets : wallets[w].balance # PairedWallets[w].balance

\* The positions at which a handler looks a transaction up by id.
Lookups == {"get_transaction", "get_transaction_ledger", "cancel_transaction"}

\* C33: a request that names a transaction of another organization is
\* answered "Transaction not found", as one that names no transaction at
\* all, and changes no table; an answer that carries ledger entries or
\* listed transactions carries those of the caller's organization only.
C33_TransactionTenantIsolation ==
    [][\A c \in Sessions :
          /\ (pc[c] \in Lookups /\ HandlerStep(c)
                /\ \/ req[c].transaction_id \notin DOMAIN txns
                   \/ txns[req[c].transaction_id].org_id # req[c].org_id)
             => /\ pc'[c] = "failed"
                /\ err'[c] = TransactionNotFound
                /\ resp'[c] = Empty
                /\ UNCHANGED db
          /\ (pc[c] = "ledgerGot" /\ HandlerStep(c))
             => \A i \in DOMAIN resp'[c].ledger_entries :
                   txns[resp'[c].ledger_entries[i].transaction_id].org_id
                      = req[c].org_id
          /\ (pc[c] = "counted" /\ HandlerStep(c))
             => \A i \in DOMAIN resp'[c].transactions :
                   txns[resp'[c].transactions[i]].org_id = req[c].org_id]_vars

\* A user of organization o2 asks to cancel the PENDING transaction of
\* organization o1, after a request of the other session has been
\* answered "Transaction not found".
C33_Witness ==
    \E c, d \in Sessions :
        /\ pc[c] = "cancel_transaction"
        /\ req[c].org_id = "o2"
        /\ req[c].transaction_id = 0
        /\ txns[0].status = PENDING /\ txns[0].org_id = "o1"
        /\ pc[d] = "failed" /\ err[d] = TransactionNotFound

\* The positions of the handlers that only query.
QueryPositions ==
    {"get_transaction", "get_transaction_ledger", "ledgerGot",
     "get_transactions", "counted", "get_transaction_summary",
     "get_wallet_balance", "get_wallet_transactions", "historyOwned",
     "historyCounted", "get_wallet_summary", "summaryTotal", "summaryBalance"}

\* C34: every step of a query handler, from the arrival of the request to
\* its answer or its refusal, leaves the wallets, the transactions and the
\* ledger entries as they are.
C34_QueriesReadOnly ==
    [][\A c \in Sessions :
          (HandlerStep(c) /\ (pc[c] \in QueryPositions \/ pc'[c] \in QueryPositions))
             => UNCHANGED db]_vars

\* A balance has been answered to one session and a wallet history
\* refused to the other.
C34_Witness ==
    \E c, d \in Sessions :
        /\ pc[c] = "done" /\ "balance" \in DOMAIN resp[c]
        /\ pc[d] = "failed" /\ err[d] = AccessDenied

\* C35: a step of update_wallet_status that starts with at most one ACTIVE
\* PRIMARY wallet for every user ends with at most one for every user.
C35_StatusKeepsOneActivePrimary ==
    [][\A c \in Sessions :
          (pc[c] = "statusGot" /\ HandlerStep(c)
             /\ \A u \in Users : Cardinality(ActivePrimaryWallets(u)) <= 1)
          => \A u \in Users : Cardinality(ActivePrimaryWallets(u)') <= 1]_vars

\* C36: no step changes the sum of the balances of the wallets of an
\* organization.
C36_MoneyConserved ==
    [][\A o \in Orgs :
          SumOfBalances(WalletsOf(o))' = SumOfBalances(WalletsOf(o))]_vars

RECURSIVE SumOfEntries(_)
SumOfEntries(S) ==
    IF S = {} THEN 0
    ELSE LET e == CHOOSE x \in S : TRUE IN e.amount + SumOfEntries(S \ {e})

\* C37: the committed balance of every wallet is its balance at creation
\* plus the sum of the amounts of the ledger entries on that wallet.
C37_LedgerReconciles ==
    \A w \in WalletIds :
        wallets[w].balance
            = SeedBal[w] + SumOfEntries({e \in ledger : e.wallet_id = w})

\* C38: the sender wallet and the receiver wallet of every committed
\* transaction are wallets of the transaction's organization, and every
\* ledger entry of the transaction is on one of the two.
C38_NoCrossTenantTransfer ==
    \A t \in DOMAIN txns :
        /\ txns[t].sender_wallet_id \in DOMAIN wallets
        /\ txns[t].receiver_wallet_id \in DOMAIN wallets
        /\ wallets[txns[t].sender_wallet_id].org_id = txns[t].org_id
        /\ wallets[txns[t].receiver_wallet_id].org_id = txns[t].org_id
        /\ \A e \in EntriesOf(ledger, t) :
              e.wallet_id \in {txns[t].sender_wallet_id, txns[t].receiver_wallet_id}

\* A transfer from a wallet of organization o1 to a wallet of organization
\* o2 has reached the engine's check, after another transfer has committed.
C38_Witness ==
    /\ \E t \in DOMAIN txns : Completed(txns, t)
    /\ \E c \in Sessions :
          /\ pc[c] = "gotR"
          /\ wallets[Sender(c)].org_id = req[c].org_id
          /\ wallets[Receiver(c)].org_id # req[c].org_id

\* C39: the step that commits a transfer changes the balance of no wallet
\* whose committed status is LOCKED or CLOSED.
C39_CommitOnActiveOnly ==
    [][\A c \in Sessions : CommitStep(c) =>
          \A w \in {Sender(c), Receiver(c)} :
              wallets[w].status # ACTIVE
                 => wallets'[w].balance = wallets[w].balance]_vars

====
